---- MODULE Spec2Model ----
(***************************************************************************)
(* MicroRemed: the experiment campaign of inject_and_remediate.py          *)
(* (run_experiments) together with the ThinkRemed remediation loop of      *)
(* methods/ThinkRemed/coordinator.py (remediate_failure).                  *)
(*                                                                         *)
(* The program is single threaded.  pc is the position of the one thread   *)
(* of control; the collaborators (recovery oracle, model transport, action *)
(* executor, deploy script, chaos injector) are the environment and their  *)
(* results are chosen with \E inside the step that calls them.             *)
(*                                                                         *)
(* The recovery oracle of chaos/check_status.py is modelled on its own:    *)
(* SpecOracle is one call of check(...), its frame held in oracle, with    *)
(* the cluster (pod lists, kubectl output) as the environment.             *)
(*                                                                         *)
(* Five units are modelled on their own as well, each with its own frame:  *)
(* SpecExecutor (methods/execution_agent.py), SpecProbe                    *)
(* (methods/ThinkRemed/probe_agent.py), SpecLLM (models/llm.py: generate   *)
(* and the stream parser), SpecQuantity (the quantity parsers of           *)
(* chaos/check_status.py) and SpecRestore (restore_by_original_manifest of *)
(* chaos/deployment.py).                                                   *)
(***************************************************************************)
EXTENDS Integers, Sequences, FiniteSets, TLC

\* ---------------------------------------------------------------- bounds
\* args.experiments: number of slots of the campaign
TotalExperiments == 2
\* args.injection_timeout, in polls of the injection wait loop
InjectionTimeout == 1
\* well-formed probe requests the model makes in one drafting phase
MaxProbeRounds == 1
\* consecutive unhealthy baseline checks
MaxUnhealthy == 2
\* the counter of deploy_env calls inside the wait loop saturates here
MaxDeploys == 2
\* polls of a readiness loop before its timeout must have expired
\* (START_TIMEOUT / START_CHECK_INTERVAL in the program)
MaxGatePolls == 2
\* rounds of a metric loop before its timeout must have expired
\* (timeout / INTERVAL in the program)
MaxRounds == 2
\* pods one get_pod_list call returns
MaxPods == 2
\* container lines of one kubectl top output; containers judged in one round
MaxLines == 2
\* processes ansible-playbook leaves in its process group besides itself
MaxDescendants == 2
\* characters of the cmds string of one probe request
MaxChars == 3
\* lines of one streamed response body
MaxChunks == 3
\* integer part of a quantity string handed to the quantity parsers
MaxNumber == 2

\* ------------------------------------------------------ program constants
MAX_RETRY_TIME == 1

\* failure kinds the campaign draws from (a subset of chaos/failures.py)
get_random_failure == {"cpu-stress", "pod-fail"}

Slots == 1..TotalExperiments

\* failure_list: None (or an empty file) without experiment file, else the
\* kinds it lists, one per slot: total_experiments is then its length.  Two
\* files are considered, one alternating the kinds and one repeating a kind.
NoList == <<>>
FailureLists ==
    {NoList,
     [i \in Slots |-> IF i % 2 = 1 THEN "pod-fail" ELSE "cpu-stress"],
     [i \in Slots |-> "cpu-stress"]}

\* the selection of the kind drawing at random even when a list is supplied
select_failure_type_AlwaysRandom(list, n) == get_random_failure

\* failure_list[current_experiment_no - 1] if failure_list else
\* get_random_failure(target_env): the kinds slot n may get
select_failure_type(list, n) ==
    IF list # NoList THEN {list[n]} ELSE get_random_failure

Min(a, b) == IF a < b THEN a ELSE b

VARIABLES
    \* ---- run_experiments
    pc,                                   \* position of the thread of control
    abort,                                \* uncaught exception / exit that ended the process
    enable_strict_restart,                \* args.enable_strict_restart
    failure_list,                         \* the lines of args.experiment_path, if any
    current_experiment_no,
    success_count,
    failure_injection_failures,
    failure_type_success_injection_dict,
    failure_type_success_remediation_dict,
    failure_type,
    elapsed,                              \* time.time() - start_time_injection, in polls
    injected,
    conversations,                        \* what remediate returned: "none", "list", "False"
    ret_try_time,                         \* the second component remediate returned
    success,                              \* result of the final check
    \* ---- remediate_failure (ThinkRemed)
    prompts,
    playbook_code,
    playbook_exec_status,
    status,
    try_time,
    in_retry,                             \* control is inside the retry loop
    probe_rounds,
    \* ---- observers of the collaborators
    llm_tick,                             \* parity of the chat_api calls of this drafting phase
    last_resp,                            \* kind of the last chat_api response
    exec_calls,                           \* executor invocations of this remediation
    verify_calls,                         \* verify_status invocations of this remediation
    settled,                              \* WAIT_REME_TIME was slept after the last execution
    unhealthy,                            \* consecutive unhealthy baseline checks
    deploys,                              \* deploy_env calls of this wait loop (saturating)
    events,                               \* per slot: the calls made, in order
    stop_calls,                           \* per slot: stop_injection calls
    restore_calls,                        \* per slot: restore_by_original_manifest calls
    records,                              \* per slot: the records _save_conversation wrote
    \* ---- chaos/check_status.py
    oracle,                               \* the frame of one call of check(...)
    \* ---- functions analysed on their own, one call each
    executor,                             \* execute_playbook_and_get_response
    probe,                                \* get_probe_response
    llm,                                  \* LLMClient.generate / parse_streamed_response
    quantity,                             \* the resource-quantity parsers
    restoration                           \* restore_by_original_manifest

args == <<enable_strict_restart, failure_list>>
orch_vars == <<pc, abort, args, current_experiment_no, success_count,
               failure_injection_failures, failure_type_success_injection_dict,
               failure_type_success_remediation_dict, failure_type, elapsed, injected,
               conversations, ret_try_time, success>>
remed_vars == <<prompts, playbook_code, playbook_exec_status, status, try_time, in_retry,
                probe_rounds>>
obs_vars == <<llm_tick, last_resp, exec_calls, verify_calls, settled, unhealthy, deploys, events,
              stop_calls, restore_calls, records>>
campaign_vars == <<orch_vars, remed_vars, obs_vars>>
unit_vars == <<executor, probe, llm, quantity, restoration>>
vars == <<campaign_vars, oracle, unit_vars>>

\* ------------------------------------------------------------- messages
Msg(r, c) == [role |-> r, content |-> c]

root_prompt == Msg("system", "root_prompt")
round_prompt == Msg("user", "round_prompt")

\* f"playbook execution response: {output}"
ExecResponseMsg(output) == Msg("assistant", "playbook execution response: " \o output)

\* the retry prompt interpolates playbook_exec_status and status
retry_prompt(exec_status, st) ==
    Msg("user", "retry_prompt returned: " \o (IF exec_status THEN "True" ELSE "False")
                 \o ", output: " \o (IF st THEN "True" ELSE "False"))

Log(e) == events' = [events EXCEPT ![current_experiment_no] = Append(@, e)]
LogAll(es) == events' = [events EXCEPT ![current_experiment_no] = @ \o es]

Has(s, e) == \E i \in 1..Len(s) : s[i] = e
\* e1 occurs in s, and before the first e2
Before(s, e1, e2) ==
    \E i \in 1..Len(s) : s[i] = e1 /\ \A j \in 1..i : s[j] # e2

\* --------------------------------------------------------- collaborators
\* deploy_env: deploy.sh fails -> sys.exit(1); else True or False (pods never ready)
DeployOutcomes == {"True", "False", "exit"}

\* execute_playbook_and_get_response: (True, stdout), (False, error text), or
\* RuntimeError when the playbook file cannot be written
ExecOutcomes == {"ok", "fail", "raise"}

\* chat_api as seen by get_playbook_with_probing
ChatResponses == {"raise", "no_tools", "playbook_ok", "playbook_badjson",
                  "playbook_noargs", "probe_ok", "probe_bad"}
ProbeResponses == {"probe_ok", "probe_bad"}

\* verify_status(namespace, label, type): the recovery verdict
verify_status == BOOLEAN

\* =========================================================================
\* chaos/check_status.py: the values the recovery oracle works on
\* =========================================================================

\* chaos/failures.py
failures == {"cpu-stress", "memory-stress", "pod-fail", "network-loss", "network-delay",
             "disk-io", "pod-config-error"}

\* the kinds check is called with: the supported ones and two others
Kinds == failures \cup {"unknown-kind", ""}

\* the table of check with network-delay mapped to the disk predicate
dispatch_DelayToDisk ==
    [k \in failures |->
        CASE k = "cpu-stress"       -> "check_cpu_stress_recovered"
          [] k = "memory-stress"    -> "check_memory_stress_recovered"
          [] k = "pod-fail"         -> "check_pod_ready_recovered"
          [] k = "network-loss"     -> "check_ping_latency_recovered"
          [] k = "network-delay"    -> "check_disk_io_performance"
          [] k = "disk-io"          -> "check_disk_io_performance"
          [] k = "pod-config-error" -> "check_config_error_recovered"]

\* the table of check: failure kind -> predicate
dispatch ==
    [k \in failures |->
        CASE k = "cpu-stress"       -> "check_cpu_stress_recovered"
          [] k = "memory-stress"    -> "check_memory_stress_recovered"
          [] k = "pod-fail"         -> "check_pod_ready_recovered"
          [] k = "network-loss"     -> "check_ping_latency_recovered"
          [] k = "network-delay"    -> "check_ping_latency_recovered"
          [] k = "disk-io"          -> "check_disk_io_performance"
          [] k = "pod-config-error" -> "check_config_error_recovered"]

\* pod.status.conditions: None, or a list of conditions
Condition(t, st) == [type |-> t, status |-> st]
NoneConditions == [is_none |-> TRUE, items |-> <<>>]
ConditionList(items) == [is_none |-> FALSE, items |-> items]
Conditions ==
    {NoneConditions,
     ConditionList(<<>>),
     ConditionList(<<Condition("Ready", "True")>>),
     ConditionList(<<Condition("Ready", "False")>>),
     ConditionList(<<Condition("PodScheduled", "True")>>),
     ConditionList(<<Condition("PodScheduled", "True"), Condition("Ready", "True")>>),
     ConditionList(<<Condition("PodScheduled", "True"), Condition("Ready", "False")>>)}

\* the fields of a V1Pod that check_pod_running_and_ready reads
Pods == [deletion_timestamp : {"None", "set"},
         phase : {"Running", "Pending"},
         conditions : Conditions]

NoPod == [deletion_timestamp |-> "None", phase |-> "none", conditions |-> NoneConditions]

\* check_pod_running_and_ready without the test of the deletion timestamp
check_pod_running_and_ready_IgnoresDeletion(pod) ==
    LET cs == IF pod.conditions.is_none THEN <<>> ELSE pod.conditions.items IN
    IF pod.phase # "Running" THEN FALSE
    ELSE ~ \E i \in 1..Len(cs) : cs[i].type = "Ready" /\ cs[i].status # "True"

\* check_pod_running_and_ready(pod): False for a deletion timestamp, False for
\* a phase other than Running, False at the first condition of type Ready
\* whose status is not "True", otherwise True
check_pod_running_and_ready(pod) ==
    LET cs == IF pod.conditions.is_none THEN <<>> ELSE pod.conditions.items IN
    IF pod.deletion_timestamp # "None" THEN FALSE
    ELSE IF pod.phase # "Running" THEN FALSE
    ELSE ~ \E i \in 1..Len(cs) : cs[i].type = "Ready" /\ cs[i].status # "True"

NoSample == [what |-> "none"]

\* a quantity string of kubectl: number and suffix; numeric is false when the
\* number part is no number ("<unknown>"), present is false for None.  The
\* number part is number + milli/1000 ("2.01": number 2, milli 10).
QtyFrac(n, f, sfx) ==
    [present |-> TRUE, numeric |-> TRUE, number |-> n, milli |-> f, suffix |-> sfx]
Qty(n, sfx) == QtyFrac(n, 0, sfx)
NotANumber ==
    [present |-> TRUE, numeric |-> FALSE, number |-> 0, milli |-> 0, suffix |-> ""]
NoneQty ==
    [present |-> FALSE, numeric |-> FALSE, number |-> 0, milli |-> 0, suffix |-> ""]

\* the result of a parse: a value, or ValueError/IndexError raised
Parsed(v) == [raises |-> FALSE, value |-> v]
ParseError == [raises |-> TRUE, value |-> 0]

\* The decimal numbers up to 9.999 with at most three decimals, in
\* thousandths, whose binary64 product with 1000 lies below the exact
\* product, so that int() cuts it to one less: float("2.01") * 1000 is
\* 2009.9999999999998.  (IEEE 754 double arithmetic, round to nearest even.)
TruncatedProducts ==
    {1001, 1003, 1005, 1007, 1009, 1011, 1013, 1015, 1017, 1019, 1021, 1023,
     2002, 2006, 2010, 2014, 2018, 2022, 2026, 2030, 2034, 2038, 2042, 2046,
     4004, 4007, 4012, 4015, 4020, 4023, 4028, 4031, 4036, 4039, 4044, 4047,
     4052, 4055, 4060, 4063, 4068, 4071, 4076, 4079, 4084, 4087, 4092, 4095,
     8001, 8008, 8011, 8014, 8017, 8024, 8027, 8030, 8033, 8040, 8043, 8046,
     8049, 8056, 8059, 8062, 8065, 8072, 8075, 8078, 8081, 8088, 8091, 8094,
     8097, 8104, 8107, 8110, 8120, 8123, 8126, 8133, 8136, 8139, 8142, 8149,
     8152, 8155, 8158, 8165, 8168, 8171, 8174, 8181, 8184, 8187, 8190}

\* int(float(x) * 1000) for the number part of q
float_times_1000(q) ==
    LET exact == q.number * 1000 + q.milli
    IN  IF exact \in TruncatedProducts THEN exact - 1 ELSE exact

\* parse_cpu_to_millicores: "50m" -> int("50"), "0.1" -> int(0.1 * 1000);
\* int() of a string with a decimal point raises ValueError
parse_cpu_to_millicores(cpu_str) ==
    IF ~cpu_str.numeric THEN ParseError
    ELSE IF cpu_str.suffix = "m"
    THEN IF cpu_str.milli # 0 THEN ParseError ELSE Parsed(cpu_str.number)
    ELSE Parsed(float_times_1000(cpu_str))

\* get_container_cpu_limit_millicores: None when the container has no cpu
\* limit, else the limit in millicores
get_container_cpu_limit_millicores(cpu_limit) ==
    IF ~cpu_limit.present THEN NoneQty
    ELSE IF cpu_limit.suffix = "m" THEN Qty(cpu_limit.number, "m")
    ELSE Qty(float_times_1000(cpu_limit), "m")

\* the characters of a suffix
SuffixChars(sfx) ==
    CASE sfx = "" -> <<>>
      [] sfx = "Ki" -> <<"K", "i">> [] sfx = "Mi" -> <<"M", "i">>
      [] sfx = "Gi" -> <<"G", "i">> [] sfx = "Ti" -> <<"T", "i">>
      [] sfx = "Pi" -> <<"P", "i">> [] sfx = "Ei" -> <<"E", "i">>
      [] OTHER -> <<sfx>>

\* str.endswith
endswith(str, sfx) ==
    /\ Len(str) >= Len(sfx)
    /\ SubSeq(str, Len(str) - Len(sfx) + 1, Len(str)) = sfx

\* the branch of parse_memory_to_bytes that takes a string with these last
\* characters, as the factor base^exp it multiplies by; the last branch,
\* int(mem_str), succeeds only for digits
NoUnit == [raises |-> TRUE, base |-> 1, exp |-> 0]
Unit(b, k) == [raises |-> FALSE, base |-> b, exp |-> k]
memory_unit(tail) ==
    CASE endswith(tail, <<"K", "i">>) -> Unit(1024, 1)
      [] endswith(tail, <<"M", "i">>) -> Unit(1024, 2)
      [] endswith(tail, <<"G", "i">>) -> Unit(1024, 3)
      [] endswith(tail, <<"T", "i">>) -> Unit(1024, 4)
      [] endswith(tail, <<"P", "i">>) -> Unit(1024, 5)
      [] endswith(tail, <<"E", "i">>) -> Unit(1024, 6)
      [] endswith(tail, <<"K">>) -> Unit(1000, 1)
      [] endswith(tail, <<"M">>) -> Unit(1000, 2)
      [] endswith(tail, <<"G">>) -> Unit(1000, 3)
      [] endswith(tail, <<"T">>) -> Unit(1000, 4)
      [] tail = <<>> -> Unit(1, 0)
      [] OTHER -> NoUnit

RECURSIVE Pow(_, _)
Pow(b, k) == IF k = 0 THEN 1 ELSE b * Pow(b, k - 1)

\* parse_memory_to_bytes for an integer number part: number * base^exp, kept
\* as the number and the factor
memory_bytes(mem_str) ==
    LET u == memory_unit(SuffixChars(mem_str.suffix))
    IN  [raises |-> ~mem_str.numeric \/ u.raises, number |-> mem_str.number,
         base |-> u.base, exp |-> u.exp]

\* parse_memory_to_bytes as an integer
parse_memory_to_bytes(mem_str) ==
    LET b == memory_bytes(mem_str)
    IN  IF b.raises THEN ParseError ELSE Parsed(b.number * Pow(b.base, b.exp))

\* container names: "sidecar" in name or "busybox" in name
ContainerNames == {"app", "sidecar-busybox"}
IsSidecar(container_name) == container_name \in {"sidecar-busybox"}

\* one line of "kubectl top pod --containers" as the CPU predicate reads it,
\* with the cpu limit of that container in the pod list of the readiness loop
CpuLines ==
    [what : {"cpu_line"},
     container : ContainerNames,
     pod_listed : BOOLEAN,
     cpu_str : {Qty(499, "m"), Qty(500, "m"), Qty(1, ""), NotANumber},
     cpu_limit : {NoneQty, Qty(0, ""), Qty(1000, "m"), Qty(1, "")}]

\* one container of a pod as the memory predicate reads it: its memory limit
\* and the usage get_container_memory_usage_bytes finds (None on any failure)
MemoryContainers ==
    [what : {"container"},
     container : ContainerNames,
     mem_str : {NoneQty, Qty(511, "Ki"), Qty(512, "Ki"), Qty(1, "Mi")},
     mem_limit : {NoneQty, Qty(0, ""), Qty(1, "Mi"), Qty(1024, "Ki")}]
\* api.read_namespaced_pod raised
PodReadError == [what |-> "pod_read_error"]

\* the packet-loss summary line of ping: absent; with fewer than three comma
\* separated parts; with a third part that is no number; or "..., pct% packet loss"
LossLine(l, pct) == [line |-> l, pct |-> pct]
LossLines == {LossLine("absent", 0), LossLine("short", 0), LossLine("nonnumeric", 0),
              LossLine("ok", 0), LossLine("ok", 33), LossLine("ok", 100)}
\* the "rtt min/avg/max" line of ping, avg in ms
RttLine(l, avg) == [line |-> l, avg |-> avg]
RttLines == {RttLine("absent", 0), RttLine("short", 0), RttLine("nonnumeric", 0),
             RttLine("ok", 20), RttLine("ok", 1000), RttLine("ok", 1001)}

\* the result of the ping probe of one pod (after the fallback to the sidecar
\* container, if that was taken): subprocess.run raised, or returncode and output
Probes ==
    [what : {"probe"}, exception : {FALSE}, returncode : {0, 1},
     loss : LossLines, rtt : RttLines]
    \cup {[what |-> "probe", exception |-> TRUE, returncode |-> 0,
            loss |-> LossLine("absent", 0), rtt |-> RttLine("absent", 0)]}

\* the result of the write test of one pod: subprocess.run raised, no output,
\* a last line that is no integer, or the duration in ms; and whether the
\* removal of the test file raised
Writes ==
    {[what |-> "write", outcome |-> o, duration_ms |-> 0, cleanup |-> "ok"] :
         o \in {"exception", "empty", "nonnumeric"}}
    \cup [what : {"write"}, outcome : {"duration"}, duration_ms : {0, 1000, 1001},
           cleanup : {"ok", "raises"}]

\* defaults of the predicates
cpu_usage_ratio_threshold == [num |-> 1, den |-> 2]
memory_usage_ratio_threshold == [num |-> 1, den |-> 2]
max_latency_ms == 1000
max_loss_percent == 0
min_write_speed_mb == 10

\* the threshold test as a strict comparison: usage_ratio > threshold
AtOrAboveRatio_Strict(usage, limit, threshold) ==
    usage * threshold.den > threshold.num * limit

\* usage_ratio >= threshold, for usage_ratio = usage / limit and limit > 0
AtOrAboveRatio(usage, limit, threshold) ==
    usage * threshold.den >= threshold.num * limit

\* what one iteration of a round's loop does with its item:
\*   "skip"  continue without judging        "pass"  judged, flag unchanged
\*   "fail"  the round's flag becomes False   "abort" an exception leaves the round

\* check_cpu_stress_recovered, one line of the output
cpu_line_outcome(s) ==
    LET current_cpu_m == parse_cpu_to_millicores(s.cpu_str)
        limit_cpu_m == get_container_cpu_limit_millicores(s.cpu_limit)
    IN  IF IsSidecar(s.container) THEN "skip"
        ELSE IF ~s.pod_listed THEN "skip"
        ELSE IF current_cpu_m.raises THEN "abort"
        ELSE IF ~limit_cpu_m.present \/ limit_cpu_m.number = 0 THEN "skip"
        ELSE IF AtOrAboveRatio(current_cpu_m.value, limit_cpu_m.number,
                               cpu_usage_ratio_threshold) THEN "fail"
        ELSE "pass"

\* get_container_memory_limit_bytes: None without a limit, else the parsed limit
get_container_memory_limit_bytes(mem_limit) ==
    IF ~mem_limit.present THEN NoneQty
    ELSE Qty(parse_memory_to_bytes(mem_limit).value, "")

\* get_container_memory_usage_bytes: None when the command failed, the
\* container has no line or the value does not parse
get_container_memory_usage_bytes(mem_str) ==
    IF ~mem_str.present \/ parse_memory_to_bytes(mem_str).raises THEN NoneQty
    ELSE Qty(parse_memory_to_bytes(mem_str).value, "")

\* the memory predicate with a container whose usage is None left out of the
\* judgement, like a container without limit
memory_container_outcome_MissingUsageSkips(s) ==
    IF s.what = "pod_read_error" THEN "fail"
    ELSE LET limit_bytes == get_container_memory_limit_bytes(s.mem_limit)
             usage_bytes == get_container_memory_usage_bytes(s.mem_str)
         IN  IF IsSidecar(s.container) THEN "skip"
             ELSE IF ~limit_bytes.present \/ limit_bytes.number = 0 THEN "skip"
             ELSE IF ~usage_bytes.present THEN "skip"
             ELSE IF AtOrAboveRatio(usage_bytes.number, limit_bytes.number,
                                    memory_usage_ratio_threshold) THEN "fail"
             ELSE "pass"

\* check_memory_stress_recovered, one container of one pod
memory_container_outcome(s) ==
    IF s.what = "pod_read_error" THEN "fail"
    ELSE LET limit_bytes == get_container_memory_limit_bytes(s.mem_limit)
             usage_bytes == get_container_memory_usage_bytes(s.mem_str)
         IN  IF IsSidecar(s.container) THEN "skip"
             ELSE IF ~limit_bytes.present \/ limit_bytes.number = 0 THEN "skip"
             ELSE IF ~usage_bytes.present THEN "fail"
             ELSE IF AtOrAboveRatio(usage_bytes.number, limit_bytes.number,
                                    memory_usage_ratio_threshold) THEN "fail"
             ELSE "pass"

\* the packet-loss parse with 0 as the value of an unparsable output
parse_packet_loss_DefaultZero(loss) ==
    IF loss.line = "ok" THEN loss.pct ELSE 0

\* packet_loss_percent: 100 unless a summary line is found and its third
\* comma separated part parses (IndexError and ValueError give 100 again)
parse_packet_loss(loss) ==
    IF loss.line = "ok" THEN loss.pct ELSE 100

\* avg_latency: None unless an rtt line is found and parses
parse_avg_latency(rtt) ==
    IF rtt.line = "ok" THEN Qty(rtt.avg, "ms") ELSE NoneQty

\* "100% packet loss" in output
Has100PercentLoss(loss) == loss.line = "ok" /\ loss.pct = 100

\* check_ping_latency_recovered, the probe of one pod
ping_probe_outcome(s) ==
    LET packet_loss_percent == parse_packet_loss(s.loss)
        avg_latency == parse_avg_latency(s.rtt)
    IN  IF s.exception THEN "fail"
        ELSE IF s.returncode # 0 /\ ~Has100PercentLoss(s.loss) THEN "fail"
        ELSE IF packet_loss_percent > max_loss_percent THEN "fail"
        ELSE IF ~avg_latency.present \/ avg_latency.number > max_latency_ms THEN "fail"
        ELSE "pass"

\* check_disk_io_performance, the write test of one pod:
\* speed = 10 / (duration_ms / 1000) < min_write_speed_mb
disk_write_outcome(s) ==
    LET duration_ms == IF s.duration_ms = 0 THEN 1 ELSE s.duration_ms IN
    IF s.outcome \in {"exception", "empty", "nonnumeric"} THEN "fail"
    ELSE IF 10 * 1000 < min_write_speed_mb * duration_ms THEN "fail"
    ELSE IF s.cleanup = "raises" THEN "fail"
    ELSE "pass"

\* the write test created /var/log/mysql/test-disk-write.tmp in the pod: the
\* command ran (it printed something, or it was cut off by the timeout)
write_creates_file(s) == s.outcome # "empty"

\* check_disk_io_performance, whether the iteration reaches the removal of
\* the test file: `continue` on empty output and on a speed below the
\* threshold, and the exception handler, all leave the iteration before it
cleanup_issued(s) ==
    LET duration_ms == IF s.duration_ms = 0 THEN 1 ELSE s.duration_ms IN
    /\ s.outcome = "duration"
    /\ ~(10 * 1000 < min_write_speed_mb * duration_ms)

\* the pods holding the test file after the write test of pod number idx
test_files_after(files, idx, s) ==
    IF cleanup_issued(s) /\ s.cleanup = "ok" THEN files \ {idx}
    ELSE IF write_creates_file(s) THEN files \cup {idx}
    ELSE files

\* the predicates with a readiness loop followed by a metric loop
MetricPredicates == {"check_cpu_stress_recovered", "check_memory_stress_recovered",
                     "check_ping_latency_recovered", "check_disk_io_performance"}

\* the items one round of a predicate's metric loop may meet
Samples(predicate, pods_n) ==
    CASE predicate = "check_cpu_stress_recovered" ->
             {s \in CpuLines : pods_n = 0 => ~s.pod_listed}
      [] predicate = "check_memory_stress_recovered" ->
             MemoryContainers \cup {PodReadError}
      [] predicate = "check_ping_latency_recovered" -> Probes
      [] predicate = "check_disk_io_performance" -> Writes

item_outcome(predicate, s) ==
    CASE predicate = "check_cpu_stress_recovered" -> cpu_line_outcome(s)
      [] predicate = "check_memory_stress_recovered" -> memory_container_outcome(s)
      [] predicate = "check_ping_latency_recovered" -> ping_probe_outcome(s)
      [] predicate = "check_disk_io_performance" -> disk_write_outcome(s)

\* no call of check is in progress.  recovered: the call is made on a system
\* that stays recovered (see the environment sets of the oracle's steps);
\* calls: calls of check made so far; test_files: the pods (by position in
\* the pod list) that hold the disk predicate's test file, files_before:
\* those that held it before the first call.
OracleIdle ==
    [pc |-> "idle", type |-> "", recovered |-> FALSE, calls |-> 0,
     test_files |-> {}, files_before |-> {},
     predicate |-> "none", invoked |-> <<>>,
     returns |-> <<>>, result |-> "none", raised |-> "",
     polls |-> 0, pods_n |-> 0, items_left |-> 0, pod |-> NoPod, ready |-> FALSE,
     all_ready |-> FALSE, poll_terminating |-> FALSE, gate_ok |-> FALSE,
     rounds |-> 0, sample |-> NoSample, all_ok |-> FALSE,
     round_bad |-> FALSE, round_good |-> FALSE]

\* ------------------------------------------- functions analysed on their own
\* methods/execution_agent.py.  A process of the group Popen creates with
\* start_new_session=True: id 0 is ansible-playbook itself, the others are
\* the processes it started; a process may ignore SIGTERM, and it may or may
\* not hold the write end of the stdout/stderr pipes (ansible-playbook does).
Process == [id : 0..MaxDescendants, ignores_term : BOOLEAN, holds_pipe : BOOLEAN]

ProcessGroups ==
    {g \in SUBSET Process :
        /\ \E p \in g : p.id = 0 /\ p.holds_pipe
        /\ \A p, q \in g : p.id = q.id => p = q
        /\ \A p \in g : \A i \in 0..p.id : \E q \in g : q.id = i}

\* no call of execute_playbook_and_get_response is in progress.  running:
\* the processes of the spawned group that are alive; (status, text): the
\* pair returned; raised: the exception that left the function
ExecutorIdle ==
    [pc |-> "idle", running |-> {}, returncode |-> 0, timed_out |-> FALSE,
     status |-> FALSE, text |-> "none", raised |-> ""]
\* methods/ThinkRemed/probe_agent.py.  A string is a sequence of characters:
\* ";" is the delimiter of commands, "a" stands for any other character.
Chars == {"a", ";"}

RECURSIVE StringsOfLen(_)
StringsOfLen(n) ==
    IF n = 0 THEN {<<>>}
    ELSE {Append(t, c) : t \in StringsOfLen(n - 1), c \in Chars}

Strings == UNION {StringsOfLen(n) : n \in 0..MaxChars}

\* str.split(";"): the pieces between the delimiters, empty pieces included
RECURSIVE split(_)
split(text) ==
    IF \A k \in 1..Len(text) : text[k] # ";" THEN <<text>>
    ELSE LET k == CHOOSE j \in 1..Len(text) :
                    text[j] = ";" /\ \A h \in 1..(j - 1) : text[h] # ";"
         IN  <<SubSeq(text, 1, k - 1)>> \o split(SubSeq(text, k + 1, Len(text)))

\* a request: a string, or a list of command strings
StrRequest(text) == [kind |-> "str", text |-> text, items |-> <<>>]
ListRequest(items) == [kind |-> "list", text |-> <<>>, items |-> items]
ListItems == {<<"a">>, <<"a", ";", "a">>}
Requests ==
    {StrRequest(t) : t \in Strings}
    \cup {ListRequest(l) : l \in UNION {[1..n -> ListItems] : n \in 0..2}}

\* cmd_list: a string holding the delimiter is split on it, another string is
\* the single command, a list is taken as it is
cmd_list_of(cmds) ==
    IF cmds.kind = "str"
    THEN IF \E k \in 1..Len(cmds.text) : cmds.text[k] = ";"
         THEN split(cmds.text) ELSE <<cmds.text>>
    ELSE cmds.items

\* what subprocess.run(cmd, shell=True, ..., timeout=timeout) does
RunOutcomes == {"rc_zero", "rc_nonzero", "TimeoutExpired", "FileNotFoundError",
                "Exception"}

\* every outcome but exit code 0 leaves the loop, whatever check is
leaves_loop_OnAnyError(check, out) == out # "rc_zero"

\* a command ends the loop only by an exception that leaves the function:
\* with check=True every outcome but exit code 0 raises
leaves_loop(check, out) == check /\ out # "rc_zero"

\* the text appended to outputs for one command: the command, the response
\* reported for it, and the lines of the text, each a fixed label followed by
\* a text.  Exit code 0, a timeout, a missing executable and an unknown error
\* append "command:" + cmd + "\nresponse:" + ...; a non-zero exit code
\* appends error_msg, "Command failed (command: {cmd})", "STDOUT:" and
\* "STDERR:" with the two outputs.
segment(cmd, out) ==
    LET response == CASE out = "rc_zero" -> "stdout"
                      [] out = "rc_nonzero" -> "Command failed"
                      [] out = "TimeoutExpired" -> "time out"
                      [] out = "FileNotFoundError" -> "command not found"
                      [] OTHER -> "unknown error"
    IN  [command |-> cmd,
         response |-> response,
         lines |-> IF out = "rc_nonzero"
                   THEN <<[label |-> "Command failed (command: ", text |-> cmd],
                          [label |-> "STDOUT:", text |-> <<"stdout">>],
                          [label |-> "STDERR:", text |-> <<"stderr">>]>>
                   ELSE <<[label |-> "command:", text |-> cmd],
                          [label |-> "response:", text |-> <<response>>]>>]

\* no call of get_probe_response is in progress.  executed: the commands
\* handed to subprocess.run so far, in order; outputs: the segments appended
ProbeIdle ==
    [pc |-> "idle", cmds |-> StrRequest(<<>>), check |-> FALSE, cmd_list |-> <<>>,
     i |-> 0, executed |-> <<>>, outputs |-> <<>>, raised |-> ""]
\* models/llm.py.  The models generate distinguishes: "claude", "gpt",
\* "qwen" (tools in the request, one response), "qwq" (as qwen, but streamed;
\* "glm" is treated alike) and the rest ("Kimi", "llama", "deepseek", ...:
\* the tools are described in the text of the last message).
Models == {"claude", "gpt", "qwen", "qwq", "Kimi"}
Streamed(model) == model = "qwq"
NativeTools(model) == model \in {"claude", "gpt", "qwen", "qwq"}
max_retry_time == 1

\* a message of the transcript handed to generate: wrapped counts how often
\* its content was replaced by TOOL_CALL_PROMPT.format(prompt_message=content)
Prompt(r, c) == [role |-> r, content |-> [wrapped |-> 0, text |-> c]]
Transcripts ==
    {<<Prompt("system", "root_prompt")>>,
     <<Prompt("system", "root_prompt"), Prompt("assistant", "tool_result"),
       Prompt("user", "round_prompt")>>}

\* TOOL_CALL_PROMPT.format(..., prompt_message=prompts[-1]["content"])
tool_call_prompt(content) == [content EXCEPT !.wrapped = @ + 1]

\* One line of the event stream.  blank: an empty line; malformed: a data
\* line that is no JSON; no_choices: a chunk without choices; done: the
\* [DONE] marker; content: a delta with text only; tool_call: a delta with
\* one tool-call chunk carrying the call's index, possibly its name and
\* possibly a fragment of its arguments.
Indexes == {0, 1}
ToolName(i) == IF i = 0 THEN "print_playbook" ELSE "probe_system"
Line(k, i, n, a) == [kind |-> k, index |-> i, name |-> n, arguments |-> a]
Lines ==
    {Line(k, 0, "", <<>>) : k \in {"blank", "malformed", "no_choices", "done", "content"}}
    \cup {Line("tool_call", i, ToolName(i), a) : i \in Indexes, a \in {<<>>, <<"x">>}}
    \cup {Line("tool_call", i, "", a) : i \in Indexes, a \in {<<"x">>, <<"y">>}}

\* the position of the entry of index i in current_tool_calls (a dict, kept
\* in insertion order), 0 when there is none
PositionOf(calls, i) ==
    IF \E k \in 1..Len(calls) : calls[k].index = i
    THEN CHOOSE k \in 1..Len(calls) : calls[k].index = i
    ELSE 0

\* the body of the loop of parse_streamed_response for one tool-call chunk:
\* a new entry for an index not seen before, the name set when the chunk has
\* one, the fragment appended when the chunk has one
accumulate(calls, line) ==
    LET known == IF PositionOf(calls, line.index) = 0
                 THEN Append(calls, [index |-> line.index, name |-> "",
                                     arguments |-> <<>>])
                 ELSE calls
        k == PositionOf(known, line.index)
    IN  [known EXCEPT ![k] = [@ EXCEPT
            !.name = IF line.name # "" THEN line.name ELSE @,
            !.arguments = @ \o line.arguments]]

\* sorted(keys): a set of integers in ascending order
RECURSIVE sorted(_)
sorted(S) ==
    IF S = {} THEN <<>>
    ELSE LET m == CHOOSE x \in S : \A y \in S : x <= y
         IN  <<m>> \o sorted(S \ {m})

\* the tool calls in the order in which their first chunks arrived
tool_calls_list_InArrivalOrder(calls) == calls

\* [current_tool_calls[i] for i in sorted(current_tool_calls.keys())]
tool_calls_list(calls) ==
    LET keys == sorted({calls[k].index : k \in 1..Len(calls)})
    IN  [k \in 1..Len(keys) |-> calls[PositionOf(calls, keys[k])]]

\* no call of generate is in progress.  prompts: the caller's list, which
\* generate receives by reference; stream: the lines the server has sent;
\* current_tool_calls, deltas: the locals of parse_streamed_response (deltas
\* counts the content deltas added to full_message["content"]);
\* full_message: what the parser returned; (content, tools): what generate
\* returned
NoMessage == [parsed |-> FALSE, content |-> "", tool_calls |-> <<>>]
LlmIdle ==
    [pc |-> "idle", model |-> "", prompts |-> <<>>, retry_time |-> 0,
     stream |-> <<>>, current_tool_calls |-> <<>>, deltas |-> 0,
     full_message |-> NoMessage, content |-> "", tools |-> <<>>]
\* chaos/check_status.py, the parsers of resource quantities.  The strings
\* handed to them: cpu as a core count or in millicores, memory with one of
\* the suffixes of Kubernetes or none.
CpuStrings ==
    {QtyFrac(n, f, sfx) : n \in 0..MaxNumber, f \in {0, 1, 10, 100, 500},
                            sfx \in {"", "m"}}
MemorySuffixes == {"", "Ki", "Mi", "Gi", "Ti", "Pi", "Ei", "K", "M", "G", "T",
                   "P", "E", "m", "k"}
MemoryStrings == {Qty(n, sfx) : n \in 0..MaxNumber, sfx \in MemorySuffixes}

\* no parser is being called
NoBytes == [raises |-> FALSE, number |-> 0, base |-> 1, exp |-> 0]
QuantityIdle ==
    [pc |-> "idle", function |-> "", input |-> NoneQty, millicores |-> Parsed(0),
     bytes |-> NoBytes]

\* chaos/deployment.py.  The cpu limit of the application container stands
\* for its resources: OriginalCpu is what the manifest records, LiveCpu what a
\* pod may show (None: the pod has no container of that name).
OriginalCpu == Qty(500, "m")
LiveCpu == {Qty(500, "m"), QtyFrac(0, 500, ""), Qty(1, ""), NoneQty}

\* a pod of list_namespaced_pod as restore reads it; ready is the status of
\* its Ready condition ("none": status.conditions is None)
RestorePods == [phase : {"Running", "Pending"}, ready : {"True", "False", "none"},
                cpu : LiveCpu]

RECURSIVE PodListsOfLen(_)
PodListsOfLen(n) ==
    IF n = 0 THEN {<<>>}
    ELSE {Append(l, p) : l \in PodListsOfLen(n - 1), p \in RestorePods}

PodLists == UNION {PodListsOfLen(n) : n \in 0..MaxPods}

\* _is_pod_abnormal: not Running, or a Ready condition that is not "True";
\* iterating conditions = None raises, which is caught and gives False
_is_pod_abnormal(pod) ==
    IF pod.phase # "Running" THEN TRUE
    ELSE IF pod.ready = "none" THEN FALSE
    ELSE pod.ready # "True"

\* _normalize_resource_value: "<int>m" becomes the decimal number of cores
\* with trailing zeros removed, any other text stays as it is
_normalize_resource_value(val) ==
    IF ~val.present THEN val
    ELSE IF val.suffix = "m" /\ val.numeric /\ val.milli = 0
         THEN QtyFrac(val.number \div 1000, val.number % 1000, "")
    ELSE val

_resources_equal(res1, res2) ==
    _normalize_resource_value(res1) = _normalize_resource_value(res2)

\* _get_current_pod_resources(namespace, app_label, container_name): lists the
\* pods of the app again and reads the container of the first pod that is
\* Running (of the first pod when none is); None when the list call raises,
\* no pod is found or that pod has no such container.  The pod being judged,
\* the i-th of the caller's list, is not a parameter of the function.
_get_current_pod_resources(pods, i, listed) ==
    IF ~listed \/ pods = <<>> THEN NoneQty
    ELSE LET running == {k \in 1..Len(pods) : pods[k].phase = "Running"}
             first == IF running = {} THEN 1
                      ELSE CHOOSE k \in running : \A m \in running : k <= m
         IN  pods[first].cpu

\* no call of restore_by_original_manifest is in progress.  found: the
\* manifest defines the app; target_resources: what the manifest records for
\* the container (None when it names no such container); pods: the pod list;
\* i: the pod the loop is at; deletes: the pods delete_namespaced_pod was
\* called for; unread: the pods for which the list call of
\* _get_current_pod_resources raised; calls: the steps made, in order
RestorationIdle ==
    [pc |-> "idle", found |-> FALSE, target_resources |-> NoneQty, pods |-> <<>>,
     i |-> 0, deletes |-> {}, unread |-> {}, calls |-> <<>>, applied |-> FALSE, ready |-> FALSE,
     result |-> "none", raised |-> ""]

\* the state after construction, apart from the oracle's frame
InitCampaign ==
    /\ pc = "loop"
    /\ abort = ""
    /\ enable_strict_restart \in BOOLEAN
    /\ failure_list \in FailureLists
    /\ current_experiment_no = 1
    /\ success_count = 0
    /\ failure_injection_failures = 0
    /\ failure_type_success_injection_dict = [k \in get_random_failure |-> 0]
    /\ failure_type_success_remediation_dict = [k \in get_random_failure |-> 0]
    /\ failure_type = "none"
    /\ elapsed = 0
    /\ injected = FALSE
    /\ conversations = "none"
    /\ ret_try_time = 0
    /\ success = FALSE
    /\ prompts = <<>>
    /\ playbook_code = ""
    /\ playbook_exec_status = FALSE
    /\ status = FALSE
    /\ try_time = 0
    /\ in_retry = FALSE
    /\ probe_rounds = 0
    /\ llm_tick = FALSE
    /\ last_resp = "none"
    /\ exec_calls = 0
    /\ verify_calls = 0
    /\ settled = TRUE
    /\ unhealthy = 0
    /\ deploys = 0
    /\ events = [s \in Slots |-> <<>>]
    /\ stop_calls = [s \in Slots |-> 0]
    /\ restore_calls = [s \in Slots |-> 0]
    /\ records = [s \in Slots |-> <<>>]

\* no call of the functions analysed on their own is in progress
UnitsIdle ==
    /\ executor = ExecutorIdle
    /\ probe = ProbeIdle
    /\ llm = LlmIdle
    /\ quantity = QuantityIdle
    /\ restoration = RestorationIdle

Init ==
    /\ InitCampaign
    /\ oracle = OracleIdle
    /\ UnitsIdle

\* ---------------------------------------------------------------- frames
tallies == <<success_count, failure_injection_failures,
             failure_type_success_injection_dict, failure_type_success_remediation_dict>>
iter_locals == <<failure_type, elapsed, injected, unhealthy, deploys>>
remed_state == <<prompts, playbook_code, playbook_exec_status, status, try_time,
                 in_retry, probe_rounds>>
remed_obs == <<llm_tick, last_resp, exec_calls, verify_calls, settled>>
ret_vars == <<conversations, ret_try_time, success>>
slot_obs == <<stop_calls, restore_calls, records>>

\* The iteration is over: its locals are dead until the next iteration assigns
\* them again, so they take their initial values.
EndIteration ==
    /\ current_experiment_no' = current_experiment_no + 1
    /\ failure_type' = "none"
    /\ elapsed' = 0
    /\ injected' = FALSE
    /\ unhealthy' = 0
    /\ deploys' = 0
    /\ pc' = "loop"

\* an uncaught exception or sys.exit ends the process
Terminate(cause) ==
    /\ pc' = "terminated"
    /\ abort' = cause

\* =========================================================================
\* run_experiments
\* =========================================================================

\* while current_experiment_no <= total_experiments: select failure and target
SelectFailure ==
    /\ pc = "loop"
    /\ current_experiment_no <= TotalExperiments
    /\ \E ft \in select_failure_type(failure_list, current_experiment_no) :
         failure_type' = ft
    /\ pc' = "baseline"
    /\ UNCHANGED <<abort, args, oracle, unit_vars,
                   current_experiment_no, tallies, elapsed,
                   injected, unhealthy, deploys, ret_vars, remed_state, remed_obs, events,
                   slot_obs>>

\* the loop condition is false: print the summary.  With success_count > 0
\* it divides by success_count and by total_experiments -
\* failure_injection_failures; a zero divisor raises ZeroDivisionError
Summary ==
    /\ pc = "loop"
    /\ current_experiment_no > TotalExperiments
    /\ IF success_count > 0 /\ TotalExperiments - failure_injection_failures = 0
       THEN Terminate("ZeroDivisionError")
       ELSE pc' = "done" /\ UNCHANGED abort
    /\ UNCHANGED <<args, oracle, unit_vars,
                   current_experiment_no, tallies,
                   iter_locals, ret_vars, remed_state, remed_obs, events, slot_obs>>

LogBaseline ==
    IF events[current_experiment_no] = <<>> THEN Log("baseline") ELSE UNCHANGED events

\* check(namespace, app=target, "pod-fail") is true
BaselineHealthy ==
    /\ pc = "baseline"
    /\ LogBaseline
    /\ unhealthy' = 0
    /\ pc' = "inject"
    /\ UNCHANGED <<abort, args, oracle, unit_vars,
                   current_experiment_no, tallies,
                   failure_type, elapsed, injected, deploys, ret_vars, remed_state,
                   remed_obs, slot_obs>>

\* the unhealthy baseline consuming the slot: current_experiment_no += 1; continue
BaselineUnhealthy_ConsumesSlot ==
    /\ pc = "baseline"
    /\ unhealthy < MaxUnhealthy
    /\ LogBaseline
    /\ unhealthy' = unhealthy + 1
    /\ current_experiment_no' = current_experiment_no + 1
    /\ \E d \in DeployOutcomes :
         IF d = "exit" THEN Terminate("SystemExit")
                       ELSE pc' = "loop" /\ UNCHANGED abort
    /\ UNCHANGED <<args, oracle, unit_vars,
                   tallies, failure_type, elapsed, injected,
                   deploys, ret_vars, remed_state, remed_obs, slot_obs>>

\* check(...) is false: deploy_env(target_env); continue
BaselineUnhealthy ==
    /\ pc = "baseline"
    /\ unhealthy < MaxUnhealthy
    /\ LogBaseline
    /\ unhealthy' = unhealthy + 1
    /\ \E d \in DeployOutcomes :
         IF d = "exit" THEN Terminate("SystemExit")
                       ELSE pc' = "loop" /\ UNCHANGED abort
    /\ UNCHANGED <<args, oracle, unit_vars,
                   current_experiment_no, tallies, failure_type,
                   elapsed, injected, deploys, ret_vars, remed_state, remed_obs, slot_obs>>

\* injection_status = inject_failure(...)
Inject ==
    /\ pc = "inject"
    /\ \E injection_status \in BOOLEAN :
         IF ~injection_status
         THEN /\ failure_injection_failures' = failure_injection_failures + 1
              /\ Log("apply_fail")
              /\ EndIteration
         ELSE /\ elapsed' = 0
              /\ injected' = FALSE
              /\ Log("apply_ok")
              /\ pc' = "wait"
              /\ UNCHANGED <<failure_injection_failures, current_experiment_no,
                             failure_type, unhealthy, deploys>>
    /\ UNCHANGED <<abort, args, oracle, unit_vars, success_count,
                   failure_type_success_injection_dict,
                   failure_type_success_remediation_dict, ret_vars, remed_state,
                   remed_obs, slot_obs>>

\* the confirmation test without its negation: if check_status.check(...)
InjectionConfirmed_Inverted(check_result) == check_result

\* if not check_status.check(..., failure_type, 5): injected = True
InjectionConfirmed(check_result) == ~check_result

\* one pass of the wait loop before the timeout: poll the kind's predicate
InjectionPoll ==
    /\ pc = "wait"
    /\ ~(elapsed > InjectionTimeout)
    /\ \E check_result \in BOOLEAN :
         IF InjectionConfirmed(check_result)
         THEN /\ injected' = TRUE
              /\ failure_type_success_injection_dict' =
                     [failure_type_success_injection_dict EXCEPT ![failure_type] = @ + 1]
              /\ Log(IF check_result THEN "check_true" ELSE "check_false")
              /\ elapsed' = 0
              /\ pc' = "remediate"
         ELSE /\ \E t \in (elapsed + 1)..(InjectionTimeout + 1) : elapsed' = t
              /\ pc' = "wait"
              /\ UNCHANGED <<injected, failure_type_success_injection_dict, events>>
    /\ UNCHANGED <<abort, args, oracle, unit_vars,
                   current_experiment_no, success_count,
                   failure_injection_failures, failure_type_success_remediation_dict,
                   failure_type, unhealthy, deploys, ret_vars, remed_state, remed_obs,
                   slot_obs>>

\* timeout with enable_strict_restart: deploy_env(target_env); continue.
\* The continue is inside the inner "while True", so control returns to the
\* timeout test of the wait loop, with start_time_injection unchanged.
InjectionTimeoutStrict ==
    /\ pc = "wait"
    /\ elapsed > InjectionTimeout
    /\ enable_strict_restart
    /\ deploys' = Min(deploys + 1, MaxDeploys)
    /\ \E d \in DeployOutcomes :
         IF d = "exit" THEN Terminate("SystemExit")
                       ELSE pc' = "wait" /\ UNCHANGED abort
    /\ UNCHANGED <<args, oracle, unit_vars,
                   current_experiment_no, tallies, failure_type,
                   elapsed, injected, unhealthy, ret_vars, remed_state, remed_obs, events,
                   slot_obs>>

\* the abandon path without its stop_injection call, like the path of a
\* failure that could not be applied
InjectionTimeoutAbandon_WithoutStop ==
    /\ pc = "wait"
    /\ elapsed > InjectionTimeout
    /\ ~enable_strict_restart
    /\ Log("timeout")
    /\ failure_injection_failures' = failure_injection_failures + 1
    /\ EndIteration
    /\ UNCHANGED <<abort, args, oracle, unit_vars, success_count,
                   failure_type_success_injection_dict,
                   failure_type_success_remediation_dict, ret_vars, remed_state,
                   remed_obs, stop_calls, restore_calls, records>>

\* timeout without strict restart: break; stop_injection; count; next slot
InjectionTimeoutAbandon ==
    /\ pc = "wait"
    /\ elapsed > InjectionTimeout
    /\ ~enable_strict_restart
    /\ stop_calls' = [stop_calls EXCEPT ![current_experiment_no] = @ + 1]
    /\ LogAll(<<"timeout", "stop">>)
    /\ failure_injection_failures' = failure_injection_failures + 1
    /\ EndIteration
    /\ UNCHANGED <<abort, args, oracle, unit_vars, success_count,
                   failure_type_success_injection_dict,
                   failure_type_success_remediation_dict, ret_vars, remed_state,
                   remed_obs, restore_calls, records>>

\* =========================================================================
\* methods/ThinkRemed/coordinator.py: remediate_failure
\* =========================================================================

\* remediate(...) is called: prompts = [system prompt]; first drafting phase
RemediateCall ==
    /\ pc = "remediate"
    /\ Log("remediate_call")
    /\ prompts' = <<root_prompt>>
    /\ pc' = "draft"
    /\ UNCHANGED <<abort, args, oracle, unit_vars,
                   current_experiment_no, tallies,
                   iter_locals, ret_vars, playbook_code, playbook_exec_status, status,
                   try_time, in_retry, probe_rounds, remed_obs, slot_obs>>

\* get_playbook_with_probing with "if not tools: continue" for "return"
get_playbook_with_probing_NoToolsLoops(p, resp) ==
    CASE resp = "raise" ->
           [prompts |-> p, outcome |-> "raise", code |-> "", probed |-> FALSE]
      [] resp \in {"no_tools", "probe_bad"} ->
           [prompts |-> p, outcome |-> "loop", code |-> "", probed |-> FALSE]
      [] resp = "playbook_ok" ->
           [prompts |-> Append(p, Msg("assistant", "tool_args_str")),
            outcome |-> "return", code |-> "code", probed |-> FALSE]
      [] resp = "playbook_badjson" ->
           [prompts |-> p \o <<Msg("assistant", "tool_args_str"),
                               Msg("assistant", "Error Code")>>,
            outcome |-> "return", code |-> "", probed |-> FALSE]
      [] resp = "playbook_noargs" ->
           [prompts |-> Append(p, Msg("assistant", "Error Code")),
            outcome |-> "return", code |-> "", probed |-> FALSE]
      [] resp = "probe_ok" ->
           [prompts |-> p \o <<Msg("assistant", "tool_result"), round_prompt>>,
            outcome |-> "loop", code |-> "", probed |-> TRUE]

\* get_playbook_with_probing with the exception of a malformed probe request
\* handled like that of a malformed draft: the error is recorded and the
\* function returns an empty playbook
get_playbook_with_probing_BadProbeEnds(p, resp) ==
    CASE resp = "raise" ->
           [prompts |-> p, outcome |-> "raise", code |-> "", probed |-> FALSE]
      [] resp = "no_tools" ->
           [prompts |-> p, outcome |-> "return", code |-> "", probed |-> FALSE]
      [] resp = "playbook_ok" ->
           [prompts |-> Append(p, Msg("assistant", "tool_args_str")),
            outcome |-> "return", code |-> "code", probed |-> FALSE]
      [] resp = "playbook_badjson" ->
           [prompts |-> p \o <<Msg("assistant", "tool_args_str"),
                               Msg("assistant", "Error Code")>>,
            outcome |-> "return", code |-> "", probed |-> FALSE]
      [] resp = "playbook_noargs" ->
           [prompts |-> Append(p, Msg("assistant", "Error Code")),
            outcome |-> "return", code |-> "", probed |-> FALSE]
      [] resp = "probe_ok" ->
           [prompts |-> p \o <<Msg("assistant", "tool_result"), round_prompt>>,
            outcome |-> "loop", code |-> "", probed |-> TRUE]
      [] resp = "probe_bad" ->
           [prompts |-> Append(p, Msg("assistant", "Error Code")),
            outcome |-> "return", code |-> "", probed |-> FALSE]

\* One pass of the "while True" of get_playbook_with_probing on the response
\* resp of chat_api: the transcript afterwards, how the pass ends ("return",
\* "loop" again, or "raise"), the playbook text returned, and whether
\* get_probe_response was invoked.  "probe_bad" is a probe request whose
\* arguments are no JSON or hold no "cmds": json.loads(...)["cmds"] raises and
\* the except clause passes.
get_playbook_with_probing(p, resp) ==
    CASE resp = "raise" ->
           [prompts |-> p, outcome |-> "raise", code |-> "", probed |-> FALSE]
      [] resp = "no_tools" ->
           [prompts |-> p, outcome |-> "return", code |-> "", probed |-> FALSE]
      [] resp = "playbook_ok" ->
           [prompts |-> Append(p, Msg("assistant", "tool_args_str")),
            outcome |-> "return", code |-> "code", probed |-> FALSE]
      [] resp = "playbook_badjson" ->
           [prompts |-> p \o <<Msg("assistant", "tool_args_str"),
                               Msg("assistant", "Error Code")>>,
            outcome |-> "return", code |-> "", probed |-> FALSE]
      [] resp = "playbook_noargs" ->
           [prompts |-> Append(p, Msg("assistant", "Error Code")),
            outcome |-> "return", code |-> "", probed |-> FALSE]
      [] resp = "probe_ok" ->
           [prompts |-> p \o <<Msg("assistant", "tool_result"), round_prompt>>,
            outcome |-> "loop", code |-> "", probed |-> TRUE]
      [] resp = "probe_bad" ->
           [prompts |-> p, outcome |-> "loop", code |-> "", probed |-> FALSE]

\* remediate_failure returns: the locals of its frame, other than the returned
\* list and the last verdict, are gone
DiscardFrame ==
    /\ playbook_code' = ""
    /\ playbook_exec_status' = FALSE
    /\ try_time' = 0
    /\ in_retry' = FALSE
    /\ probe_rounds' = 0

\* remediate_failure returns (prompts, try_time) to run_experiments
ReturnTranscript ==
    /\ conversations' = "list"
    /\ ret_try_time' = try_time
    /\ Log("remediate_ret")
    /\ DiscardFrame
    /\ pc' = "post"

\* one chat_api call of a drafting phase, and what the caller does when the
\* phase ends: first draft raising -> return False, -1; retry draft raising -> break
Draft ==
    /\ pc = "draft"
    /\ \E resp \in ChatResponses :
         /\ resp = "probe_ok" => probe_rounds < MaxProbeRounds
         /\ last_resp' = resp
         /\ LET r == get_playbook_with_probing(prompts, resp) IN
              /\ prompts' = r.prompts
              /\ llm_tick' = IF r.outcome = "loop" THEN ~llm_tick ELSE FALSE
              /\ CASE r.outcome = "loop" ->
                        /\ probe_rounds' = IF r.probed THEN probe_rounds + 1
                                                    ELSE probe_rounds
                        /\ pc' = "draft"
                        /\ UNCHANGED <<playbook_code, playbook_exec_status, try_time,
                                       in_retry, conversations, ret_try_time, events>>
                   [] r.outcome = "return" ->
                        /\ playbook_code' = r.code
                        /\ pc' = "execute"
                        /\ UNCHANGED <<probe_rounds, playbook_exec_status, try_time,
                                       in_retry, conversations, ret_try_time, events>>
                   [] r.outcome = "raise" ->
                        /\ IF in_retry
                           THEN ReturnTranscript
                           ELSE /\ conversations' = "False"
                                /\ ret_try_time' = -1
                                /\ Log("remediate_ret")
                                /\ DiscardFrame
                                /\ pc' = "post"
    /\ UNCHANGED <<abort, args, oracle, unit_vars,
                   current_experiment_no, tallies,
                   iter_locals, success, status, exec_calls, verify_calls, settled,
                   slot_obs>>

\* execute_and_verify on the executor's report ex and the oracle's verdict v:
\* the triple it returns, whether verify_status was invoked and whether
\* time.sleep(WAIT_REME_TIME) was made
execute_and_verify(ex, v) ==
    IF ex = "ok"
    THEN [exec_status |-> TRUE, status |-> v, output |-> "stdout", verified |-> TRUE,
          slept |-> TRUE]
    ELSE [exec_status |-> FALSE, status |-> FALSE, output |-> "error_msg",
          verified |-> FALSE, slept |-> FALSE]

\* one attempt: execute_and_verify, append the response, count the attempt
Attempt ==
    /\ pc = "execute"
    /\ exec_calls' = exec_calls + 1
    /\ \E ex \in ExecOutcomes, v \in verify_status :
         IF ex = "raise"
         THEN /\ Terminate("RuntimeError")
              /\ UNCHANGED <<prompts, playbook_exec_status, status, try_time,
                             verify_calls, settled>>
         ELSE LET r == execute_and_verify(ex, v) IN
              /\ playbook_exec_status' = r.exec_status
              /\ status' = r.status
              /\ verify_calls' = verify_calls + (IF r.verified THEN 1 ELSE 0)
              /\ settled' = r.slept
              /\ prompts' = Append(prompts, ExecResponseMsg(r.output))
              /\ try_time' = IF in_retry THEN try_time + 1 ELSE 1
              /\ pc' = "retry_test"
              /\ UNCHANGED abort
    /\ UNCHANGED <<args, oracle, unit_vars,
                   current_experiment_no, tallies, iter_locals,
                   ret_vars, playbook_code, in_retry, probe_rounds, llm_tick, last_resp,
                   events, slot_obs>>

\* the retry loop without its bound: while not status
RetryCondition_Unbounded(st, tt) == ~st

\* while not status and try_time <= MAX_RETRY_TIME
RetryCondition(st, tt) == ~st /\ tt <= MAX_RETRY_TIME

\* the retry loop counting the attempt when it asks for the new draft,
\* before anything is executed
Retry_CountsBeforeDraft ==
    /\ pc = "retry_test"
    /\ RetryCondition(status, try_time)
    /\ prompts' = Append(prompts, retry_prompt(playbook_exec_status, status))
    /\ in_retry' = TRUE
    /\ probe_rounds' = 0
    /\ try_time' = try_time + 1
    /\ pc' = "draft"
    /\ UNCHANGED <<abort, args, oracle, unit_vars,
                   current_experiment_no, tallies,
                   iter_locals, ret_vars, playbook_code, playbook_exec_status, status,
                   remed_obs, events, slot_obs>>

\* the retry loop's test: append the retry prompt and draft again
Retry ==
    /\ pc = "retry_test"
    /\ RetryCondition(status, try_time)
    /\ prompts' = Append(prompts, retry_prompt(playbook_exec_status, status))
    /\ in_retry' = TRUE
    /\ probe_rounds' = 0
    /\ pc' = "draft"
    /\ UNCHANGED <<abort, args, oracle, unit_vars,
                   current_experiment_no, tallies,
                   iter_locals, ret_vars, playbook_code, playbook_exec_status, status,
                   try_time, remed_obs, events, slot_obs>>

\* the retry loop's test is false: return prompts, try_time
Return ==
    /\ pc = "retry_test"
    /\ ~RetryCondition(status, try_time)
    /\ ReturnTranscript
    /\ UNCHANGED <<abort, args, oracle, unit_vars,
                   current_experiment_no, tallies,
                   iter_locals, success, prompts, status, remed_obs, slot_obs>>

\* =========================================================================
\* run_experiments, after remediate returned
\* =========================================================================

\* once the record is written the transcript and the observers of the finished
\* remediation call are dead
DiscardTranscript ==
    /\ conversations' = "none"
    /\ ret_try_time' = 0
    /\ prompts' = <<>>
    /\ last_resp' = "none"
    /\ exec_calls' = 0
    /\ verify_calls' = 0
    /\ settled' = TRUE

\* the final_status keyword of _save_conversation taken from the loop's verdict
final_status_FromLoopVerdict(s) == IF status THEN "success" ELSE "failed"

\* final_status="success" if success else "failed"
final_status(s) == IF s THEN "success" ELSE "failed"

\* estimate_token_count(conversations) iterates the transcript; then the final
\* check_status.check(namespace, label, type), _save_conversation(...) and the
\* success counters
FinalCheckAndSave ==
    /\ pc = "post"
    /\ IF conversations # "list"
       THEN /\ Terminate("TypeError")
            /\ UNCHANGED <<success, events, records, success_count,
                           failure_type_success_remediation_dict, conversations,
                           ret_try_time, prompts, last_resp, exec_calls,
                           verify_calls, settled>>
       ELSE /\ \E s \in BOOLEAN :
                 /\ success' = s
                 /\ records' = [records EXCEPT ![current_experiment_no] =
                        Append(@, [final_status |-> final_status(s),
                                   retries |-> ret_try_time])]
                 /\ IF s
                    THEN /\ success_count' = success_count + 1
                         /\ failure_type_success_remediation_dict' =
                                [failure_type_success_remediation_dict
                                    EXCEPT ![failure_type] = @ + 1]
                    ELSE UNCHANGED <<success_count, failure_type_success_remediation_dict>>
            /\ LogAll(<<"final_check", "save">>)
            /\ DiscardTranscript
            /\ pc' = "stop"
            /\ UNCHANGED abort
    /\ UNCHANGED <<args, oracle, unit_vars, current_experiment_no,
                   failure_injection_failures, failure_type_success_injection_dict,
                   iter_locals, playbook_code, playbook_exec_status, status, try_time,
                   in_retry, probe_rounds, llm_tick, stop_calls, restore_calls>>

\* stop_injection(failure_type, namespace)
StopInjection ==
    /\ pc = "stop"
    /\ stop_calls' = [stop_calls EXCEPT ![current_experiment_no] = @ + 1]
    /\ Log("stop")
    /\ pc' = "restore"
    /\ UNCHANGED <<abort, args, oracle, unit_vars,
                   current_experiment_no, tallies,
                   iter_locals, ret_vars, remed_state, remed_obs, restore_calls, records>>

\* restore_by_original_manifest(...) (its result is ignored); sleep;
\* current_experiment_no += 1; the loop's last verdict, kept as an observer of
\* the slot, is dead when the slot ends
Restore ==
    /\ pc = "restore"
    /\ \E restored \in BOOLEAN :
         restore_calls' = [restore_calls EXCEPT ![current_experiment_no] = @ + 1]
    /\ Log("restore")
    /\ EndIteration
    /\ success' = FALSE
    /\ status' = FALSE
    /\ UNCHANGED <<abort, args, oracle, unit_vars,
                   tallies, conversations, ret_try_time,
                   prompts, playbook_code, playbook_exec_status, try_time, in_retry,
                   probe_rounds, remed_obs, stop_calls, records>>

Next ==
    \/ SelectFailure
    \/ Summary
    \/ BaselineHealthy
    \/ BaselineUnhealthy
    \/ Inject
    \/ InjectionPoll
    \/ InjectionTimeoutStrict
    \/ InjectionTimeoutAbandon
    \/ RemediateCall
    \/ Draft
    \/ Attempt
    \/ Retry
    \/ Return
    \/ FinalCheckAndSave
    \/ StopInjection
    \/ Restore

Spec == Init /\ [][Next]_vars

\* ---- one call of remediate_failure on its own
\* run_experiments is about to call remediate in the first slot: the baseline
\* was healthy, the failure was applied and confirmed by the first poll
InitRemediate ==
    /\ pc = "remediate"
    /\ abort = ""
    /\ enable_strict_restart \in BOOLEAN
    /\ failure_list \in FailureLists
    /\ current_experiment_no = 1
    /\ success_count = 0
    /\ failure_injection_failures = 0
    /\ failure_type \in select_failure_type(failure_list, 1)
    /\ failure_type_success_injection_dict
           = [k \in get_random_failure |-> IF k = failure_type THEN 1 ELSE 0]
    /\ failure_type_success_remediation_dict = [k \in get_random_failure |-> 0]
    /\ elapsed = 0
    /\ injected = TRUE
    /\ conversations = "none"
    /\ ret_try_time = 0
    /\ success = FALSE
    /\ prompts = <<>>
    /\ playbook_code = ""
    /\ playbook_exec_status = FALSE
    /\ status = FALSE
    /\ try_time = 0
    /\ in_retry = FALSE
    /\ probe_rounds = 0
    /\ llm_tick = FALSE
    /\ last_resp = "none"
    /\ exec_calls = 0
    /\ verify_calls = 0
    /\ settled = TRUE
    /\ unhealthy = 0
    /\ deploys = 0
    /\ events = [s \in Slots |-> IF s = 1 THEN <<"baseline", "apply_ok", "check_false">>
                                          ELSE <<>>]
    /\ stop_calls = [s \in Slots |-> 0]
    /\ restore_calls = [s \in Slots |-> 0]
    /\ records = [s \in Slots |-> <<>>]
    /\ oracle = OracleIdle
    /\ UnitsIdle

NextRemediate ==
    \/ RemediateCall
    \/ Draft
    \/ Attempt
    \/ Retry
    \/ Return

SpecRemediate == InitRemediate /\ [][NextRemediate]_vars

\* the single thread of control always takes its next step
FairSpecRemediate == InitRemediate /\ [][NextRemediate]_vars /\ WF_vars(NextRemediate)

\* =========================================================================
\* chaos/check_status.py: one call of check(namespace, label, type, timeout)
\* =========================================================================

\* observers of a round: the item is one that has to fail the round (a judged
\* container at or above the ratio threshold; a probe without a parsable loss
\* within max_loss_percent and a parsable latency within max_latency_ms; a
\* write test without a duration or below min_write_speed_mb)
ItemBad(predicate, s) ==
    CASE predicate = "check_cpu_stress_recovered" ->
             /\ ~IsSidecar(s.container) /\ s.pod_listed
             /\ s.cpu_str.numeric /\ s.cpu_limit.present /\ s.cpu_limit.number > 0
             /\ 2 * parse_cpu_to_millicores(s.cpu_str).value
                    >= parse_cpu_to_millicores(s.cpu_limit).value
      [] predicate = "check_memory_stress_recovered" ->
             /\ s.what = "container"
             /\ ~IsSidecar(s.container) /\ s.mem_str.present /\ s.mem_limit.present
             /\ parse_memory_to_bytes(s.mem_limit).value > 0
             /\ 2 * parse_memory_to_bytes(s.mem_str).value
                    >= parse_memory_to_bytes(s.mem_limit).value
      [] predicate = "check_ping_latency_recovered" ->
             \/ s.exception
             \/ s.loss.line # "ok" \/ s.loss.pct > max_loss_percent
             \/ s.rtt.line # "ok" \/ s.rtt.avg > max_latency_ms
      [] predicate = "check_disk_io_performance" ->
             \/ s.outcome # "duration"
             \/ s.duration_ms > 1000

\* the item is one that was judged and is within its thresholds
ItemGood(predicate, s) ==
    CASE predicate = "check_cpu_stress_recovered" ->
             /\ ~IsSidecar(s.container) /\ s.pod_listed
             /\ s.cpu_str.numeric /\ s.cpu_limit.present /\ s.cpu_limit.number > 0
             /\ 2 * parse_cpu_to_millicores(s.cpu_str).value
                    < parse_cpu_to_millicores(s.cpu_limit).value
      [] predicate = "check_memory_stress_recovered" ->
             /\ s.what = "container"
             /\ ~IsSidecar(s.container) /\ s.mem_str.present /\ s.mem_limit.present
             /\ parse_memory_to_bytes(s.mem_limit).value > 0
             /\ 2 * parse_memory_to_bytes(s.mem_str).value
                    < parse_memory_to_bytes(s.mem_limit).value
      [] predicate = "check_ping_latency_recovered" ->
             /\ ~s.exception /\ s.returncode = 0
             /\ s.loss.line = "ok" /\ s.loss.pct <= max_loss_percent
             /\ s.rtt.line = "ok" /\ s.rtt.avg <= max_latency_ms
      [] predicate = "check_disk_io_performance" ->
             /\ s.outcome = "duration" /\ s.duration_ms <= 1000

\* What the cluster shows to a call of check.  In general anything; while the
\* system stays recovered (o.recovered): at least one pod, every pod running,
\* ready and not being deleted, kubectl top answering, every usage readable
\* and within its threshold, every probe and write test within its limits
\* and every command of the predicate completing.
PodCounts(o) == IF o.recovered THEN 1..MaxPods ELSE 0..MaxPods

PodsSeen(o) ==
    IF o.recovered
    THEN {p \in Pods : /\ p.deletion_timestamp = "None" /\ p.phase = "Running"
                       /\ ~p.conditions.is_none
                       /\ \E i \in 1..Len(p.conditions.items) :
                             p.conditions.items[i] = Condition("Ready", "True")
                       /\ \A i \in 1..Len(p.conditions.items) :
                             p.conditions.items[i] # Condition("Ready", "False")}
    ELSE Pods

SamplesSeen(o) ==
    LET all == Samples(o.predicate, o.pods_n) IN
    IF ~o.recovered THEN all
    ELSE CASE o.predicate = "check_cpu_stress_recovered" ->
                  {s \in all : s.pod_listed /\ s.cpu_str.numeric /\ ~ItemBad(o.predicate, s)}
           [] o.predicate = "check_memory_stress_recovered" ->
                  {s \in all : /\ s.what = "container" /\ s.mem_str.present
                               /\ ~ItemBad(o.predicate, s)}
           [] o.predicate = "check_ping_latency_recovered" ->
                  {s \in all : ItemGood(o.predicate, s)}
           [] o.predicate = "check_disk_io_performance" ->
                  {s \in all : ItemGood(o.predicate, s) /\ s.cleanup = "ok"}

\* a predicate is entered: its locals are fresh
StartPredicate(o, p) ==
    [o EXCEPT !.predicate = p, !.pc = "gate", !.polls = 0, !.pods_n = 0,
              !.items_left = 0, !.pod = NoPod, !.ready = FALSE, !.all_ready = FALSE,
              !.poll_terminating = FALSE, !.gate_ok = FALSE, !.rounds = 0,
              !.sample = NoSample, !.all_ok = FALSE, !.round_bad = FALSE,
              !.round_good = FALSE]

\* the running predicate returns v.  check_config_error_recovered is
\* cpu(...) and memory(...): the memory predicate runs only after the CPU
\* predicate returned True; every other return is the result of check.
PredicateReturns(o, v) ==
    LET o1 == [o EXCEPT !.returns = Append(@, [predicate |-> o.predicate, value |-> v])]
    IN  IF /\ o.invoked = <<"check_config_error_recovered">>
           /\ o.predicate = "check_cpu_stress_recovered"
           /\ v
        THEN StartPredicate(o1, "check_memory_stress_recovered")
        ELSE [o1 EXCEPT !.pc = "returned", !.result = IF v THEN "True" ELSE "False"]

\* The readiness loop is left for the metric loop: its clock and the locals
\* of its body are dead; the pod list stays in use in the CPU predicate only
\* (the other predicates list the pods again in every round).
LeaveGate(o) ==
    [o EXCEPT !.pc = "round", !.polls = 0, !.pod = NoPod, !.ready = FALSE,
              !.all_ready = FALSE, !.items_left = 0,
              !.pods_n = IF o.predicate = "check_cpu_stress_recovered" THEN @ ELSE 0]

\* time.sleep(START_CHECK_INTERVAL), then the test of the readiness loop:
\* while time.time() - start_time < START_TIMEOUT.  When the time is up the
\* loop of check_pod_ready_recovered is followed by return False, the loop of
\* the other predicates by their metric loop.
AfterGateSleep(o) ==
    {IF expired
     THEN IF o.predicate \in MetricPredicates
          THEN LeaveGate(o)
          ELSE PredicateReturns(o, FALSE)
     ELSE [o EXCEPT !.pc = "gate"]
       : expired \in IF o.polls >= MaxGatePolls THEN {TRUE} ELSE BOOLEAN}

\* time.sleep(INTERVAL), then the test of the metric loop:
\* while time.time() - start_time < timeout; after the loop return False
AfterRoundSleep(o) ==
    {IF expired THEN PredicateReturns(o, FALSE) ELSE [o EXCEPT !.pc = "round"]
       : expired \in IF o.rounds >= MaxRounds THEN {TRUE} ELSE BOOLEAN}

\* check: unknown kinds return False; known kinds call the mapped predicate
check ==
    /\ oracle.pc = "call"
    /\ IF oracle.type \in failures
       THEN LET mapped == dispatch[oracle.type]
                first == IF mapped = "check_config_error_recovered"
                         THEN "check_cpu_stress_recovered" ELSE mapped
            IN  oracle' = StartPredicate([oracle EXCEPT !.invoked = <<mapped>>,
                                                        !.calls = @ + 1], first)
       ELSE oracle' = [oracle EXCEPT !.pc = "returned", !.result = "False",
                                     !.calls = @ + 1]
    /\ UNCHANGED <<campaign_vars, unit_vars>>

\* one pass of a readiness loop up to the pod list: pods = get_pod_list(...)
\* (empty also when the API call raised); if not pods: sleep; continue
ReadinessPoll ==
    /\ oracle.pc = "gate"
    /\ \E n \in PodCounts(oracle) :
         LET o == [oracle EXCEPT !.pods_n = n, !.items_left = n, !.pod = NoPod,
                                 !.ready = FALSE, !.all_ready = (n > 0),
                                 !.poll_terminating = FALSE]
         IN  IF n = 0
             THEN oracle' \in AfterGateSleep([o EXCEPT !.polls = @ + 1])
             ELSE oracle' = [o EXCEPT !.pc = "gate_pods"]
    /\ UNCHANGED <<campaign_vars, unit_vars>>

\* check_pod_running_and_ready(pod) for the next pod of the list; all(...)
\* stops at the first pod that is not ready, the loop of
\* check_pod_ready_recovered examines every pod
CheckPod ==
    /\ oracle.pc = "gate_pods"
    /\ \E p \in PodsSeen(oracle) :
         LET r == check_pod_running_and_ready(p)
             left == IF ~r /\ oracle.predicate \in MetricPredicates
                     THEN 0 ELSE oracle.items_left - 1
         IN  oracle' = [oracle EXCEPT
                           !.pod = p, !.ready = r, !.all_ready = @ /\ r,
                           !.poll_terminating = @ \/ p.deletion_timestamp # "None",
                           !.items_left = left,
                           !.pc = IF left = 0 THEN "gate_end" ELSE "gate_pods"]
    /\ UNCHANGED <<campaign_vars, unit_vars>>

\* subprocess.run(["kubectl", "top", "pod", ...], timeout=10) in
\* check_pod_ready_recovered: the output, TimeoutExpired, or another
\* exception of subprocess.run (kubectl missing: FileNotFoundError)
TopOutcomes == {"ok", "metrics_not_available", "no_resources", "rc_nonzero",
                "TimeoutExpired", "FileNotFoundError"}
TopSeen(o) == IF o.recovered THEN {"ok"} ELSE TopOutcomes

\* the end of one pass of a readiness loop
GateEnd ==
    /\ oracle.pc = "gate_end"
    /\ IF ~oracle.all_ready
       THEN oracle' \in AfterGateSleep([oracle EXCEPT !.polls = @ + 1])
       ELSE IF oracle.predicate \in MetricPredicates
       THEN oracle' = LeaveGate([oracle EXCEPT !.gate_ok = TRUE])
       ELSE \E out \in TopSeen(oracle) :
              CASE out = "ok" -> oracle' = PredicateReturns(oracle, TRUE)
                [] out = "FileNotFoundError" ->
                       oracle' = [oracle EXCEPT !.pc = "raised", !.raised = out]
                [] OTHER -> oracle' \in AfterGateSleep([oracle EXCEPT !.polls = @ + 1])
    /\ UNCHANGED <<campaign_vars, unit_vars>>

\* subprocess.run(["kubectl", "top", "pod", ..., "--containers"]) in
\* check_cpu_stress_recovered: an exception, a non-zero return code, fewer
\* than two lines, or a header and container lines
CpuTopOutcomes == {"exception", "rc_nonzero", "no_data", "lines"}
CpuTopSeen(o) == IF o.recovered THEN {"lines"} ELSE CpuTopOutcomes

\* the top of one round of a metric loop, up to the loop over its items.
\* CPU: kubectl top; the others: pods = get_pod_list(...), if not pods: sleep;
\* continue.  The memory predicate sets all_pods_normal before the pod list,
\* the others set their flag after it.
RoundStart ==
    /\ oracle.pc = "round"
    /\ LET o == [oracle EXCEPT !.sample = NoSample, !.round_bad = FALSE,
                               !.round_good = FALSE, !.items_left = 0]
           failed == [o EXCEPT !.rounds = @ + 1]
       IN CASE oracle.predicate = "check_cpu_stress_recovered" ->
                  \E out \in CpuTopSeen(oracle) :
                    IF out = "lines"
                    THEN \E n \in 1..MaxLines :
                           oracle' = [o EXCEPT !.all_ok = TRUE, !.items_left = n,
                                               !.pc = "sampling"]
                    ELSE oracle' \in AfterRoundSleep(failed)
            [] oracle.predicate = "check_memory_stress_recovered" ->
                  \E n \in PodCounts(oracle) :
                    IF n = 0
                    THEN oracle' \in AfterRoundSleep(
                                        [failed EXCEPT !.all_ok = TRUE, !.pods_n = 0])
                    ELSE \E m \in 0..MaxLines :
                           oracle' = [o EXCEPT !.all_ok = TRUE, !.pods_n = n,
                                               !.items_left = m,
                                               !.pc = IF m = 0 THEN "round_end"
                                                               ELSE "sampling"]
            [] OTHER ->
                  \E n \in PodCounts(oracle) :
                    IF n = 0
                    THEN oracle' \in AfterRoundSleep([failed EXCEPT !.pods_n = 0])
                    ELSE oracle' = [o EXCEPT !.all_ok = TRUE, !.pods_n = n,
                                             !.items_left = n, !.pc = "sampling"]
    /\ UNCHANGED <<campaign_vars, unit_vars>>

\* one iteration of the loop over the items of a round
Sample ==
    /\ oracle.pc = "sampling"
    /\ \E s \in SamplesSeen(oracle) :
         LET out == item_outcome(oracle.predicate, s)
             o == [oracle EXCEPT
                      !.sample = s,
                      !.test_files =
                          IF oracle.predicate = "check_disk_io_performance"
                          THEN test_files_after(@, oracle.items_left, s) ELSE @,
                      !.round_bad = @ \/ ItemBad(oracle.predicate, s),
                      !.round_good = @ \/ ItemGood(oracle.predicate, s),
                      !.items_left = @ - 1,
                      !.all_ok = IF out = "fail" THEN FALSE ELSE @]
         IN  IF out = "abort"
             THEN oracle' \in AfterRoundSleep([o EXCEPT !.rounds = @ + 1,
                                                        !.items_left = 0])
             ELSE oracle' = [o EXCEPT !.pc = IF o.items_left = 0 THEN "round_end"
                                                                ELSE "sampling"]
    /\ UNCHANGED <<campaign_vars, unit_vars>>

\* after the items: if the flag is still True return True, else sleep
RoundEnd ==
    /\ oracle.pc = "round_end"
    /\ IF oracle.all_ok
       THEN oracle' = PredicateReturns(oracle, TRUE)
       ELSE oracle' \in AfterRoundSleep([oracle EXCEPT !.rounds = @ + 1])
    /\ UNCHANGED <<campaign_vars, unit_vars>>

\* the caller invokes check again, with the same kind, right after a call on
\* a system that stays recovered has returned
CheckAgain ==
    /\ oracle.pc = "returned"
    /\ oracle.recovered
    /\ oracle.calls < 2
    /\ oracle' = [OracleIdle EXCEPT !.pc = "call", !.type = oracle.type,
                                    !.recovered = TRUE, !.calls = oracle.calls,
                                    !.test_files = oracle.test_files,
                                    !.files_before = oracle.files_before]
    /\ UNCHANGED <<campaign_vars, unit_vars>>

\* the pods that may hold a test file before the call: earlier calls of the
\* disk predicate leave it behind where the write test did not pass
FilesBefore(t) == IF t = "disk-io" THEN SUBSET (1..MaxPods) ELSE {{}}

\* check is called with some kind; the campaign is not running
InitOracle ==
    /\ InitCampaign
    /\ ~enable_strict_restart
    /\ failure_list = NoList
    /\ UnitsIdle
    /\ oracle \in
         {[OracleIdle EXCEPT !.pc = "call", !.type = t] : t \in Kinds}
         \cup UNION {{[OracleIdle EXCEPT !.pc = "call", !.type = t,
                                         !.recovered = TRUE, !.test_files = f,
                                         !.files_before = f] : f \in FilesBefore(t)}
                         : t \in failures}

NextOracle ==
    \/ check
    \/ CheckAgain
    \/ ReadinessPoll
    \/ CheckPod
    \/ GateEnd
    \/ RoundStart
    \/ Sample
    \/ RoundEnd

SpecOracle == InitOracle /\ [][NextOracle]_vars

\* =========================================================================
\* methods/execution_agent.py: one call of
\* execute_playbook_and_get_response(playbook_code, timeout)
\* =========================================================================
not_executor == <<campaign_vars, oracle, probe, llm, quantity, restoration>>

\* return (status, text)
ExecutorReturns(e, st, txt) == [e EXCEPT !.pc = "returned", !.status = st, !.text = txt]

\* the pipes are at end of file and the child has been reaped: communicate
\* can return
Drained(e) == \A p \in e.running : p.id # 0 /\ ~p.holds_pipe

\* step 1: write remediation.yml; any exception becomes a RuntimeError that
\* is raised to the caller
WritePlaybook ==
    /\ executor.pc = "call"
    /\ \E written \in BOOLEAN :
         executor' = IF written THEN [executor EXCEPT !.pc = "written"]
                     ELSE [executor EXCEPT !.pc = "raised", !.raised = "RuntimeError"]
    /\ UNCHANGED not_executor

\* subprocess.Popen(cmd, ..., start_new_session=True): the group is created,
\* or Popen raises FileNotFoundError (no ansible-playbook) or something else
Popen ==
    /\ executor.pc = "written"
    /\ \/ \E g \in ProcessGroups :
            executor' = [executor EXCEPT !.pc = "communicate", !.running = g]
       \/ executor' = ExecutorReturns(executor, FALSE, "command not found")
       \/ executor' = ExecutorReturns(executor, FALSE, "unexpected error")
    /\ UNCHANGED not_executor

\* a process of the group ends by itself; ansible-playbook leaves its exit code
ProcessExits ==
    /\ executor.pc \in {"communicate", "wait"}
    /\ \E p \in executor.running :
         \E rc \in {0, 1} :
           executor' = [executor EXCEPT
                           !.running = @ \ {p},
                           !.returncode = IF p.id = 0 THEN rc ELSE @]
    /\ UNCHANGED not_executor

\* proc.communicate(timeout=timeout) returns: True with stdout for exit code
\* 0, else False with the failure text
CommunicateReturns ==
    /\ executor.pc = "communicate"
    /\ Drained(executor)
    /\ executor' = IF executor.returncode = 0
                   THEN ExecutorReturns(executor, TRUE, "stdout")
                   ELSE ExecutorReturns(executor, FALSE, "playbook failed")
    /\ UNCHANGED not_executor

\* proc.communicate(timeout=timeout) raises TimeoutExpired; the handler calls
\* os.killpg(os.getpgid(proc.pid), signal.SIGTERM) and swallows its failure.
\* SIGTERM ends the processes that do not ignore it.
TimeoutExpired ==
    /\ executor.pc = "communicate"
    /\ \E signalled \in BOOLEAN :
         executor' = [executor EXCEPT
                         !.pc = "wait", !.timed_out = TRUE,
                         !.running = IF signalled THEN {p \in @ : p.ignores_term} ELSE @,
                         !.returncode = IF signalled /\ \E p \in executor.running :
                                                          p.id = 0 /\ ~p.ignores_term
                                        THEN -15 ELSE @]
    /\ UNCHANGED not_executor

\* stdout, stderr = proc.communicate() without a timeout, then
\* return False, "... timed out ... Partial STDOUT ... Partial STDERR ..."
WaitReturns ==
    /\ executor.pc = "wait"
    /\ Drained(executor)
    /\ executor' = ExecutorReturns(executor, FALSE, "timed out, partial output")
    /\ UNCHANGED not_executor

\* one call; the campaign is not running
InitExecutor ==
    /\ InitCampaign
    /\ ~enable_strict_restart
    /\ failure_list = NoList
    /\ oracle = OracleIdle
    /\ restoration = RestorationIdle
    /\ executor = [ExecutorIdle EXCEPT !.pc = "call"]
    /\ probe = ProbeIdle
    /\ llm = LlmIdle
    /\ quantity = QuantityIdle

NextExecutor ==
    \/ WritePlaybook
    \/ Popen
    \/ ProcessExits
    \/ CommunicateReturns
    \/ TimeoutExpired
    \/ WaitReturns

SpecExecutor == InitExecutor /\ [][NextExecutor]_vars

\* =========================================================================
\* methods/ThinkRemed/probe_agent.py: one call of
\* get_probe_response(cmds, timeout, check)
\* =========================================================================
not_probe == <<campaign_vars, oracle, executor, llm, quantity, restoration>>

\* the head of the function: cmd_list and outputs = ""
SplitCommands ==
    /\ probe.pc = "call"
    /\ probe' = [probe EXCEPT !.pc = "loop", !.cmd_list = cmd_list_of(probe.cmds),
                              !.i = 1, !.outputs = <<>>]
    /\ UNCHANGED not_probe

\* one iteration of `for cmd in cmd_list`
RunCommand ==
    /\ probe.pc = "loop"
    /\ probe.i <= Len(probe.cmd_list)
    /\ \E out \in RunOutcomes :
         LET cmd == probe.cmd_list[probe.i]
             ran == [probe EXCEPT !.executed = Append(@, cmd)]
         IN  probe' = IF leaves_loop(probe.check, out)
                      THEN [ran EXCEPT !.pc = "raised",
                                       !.raised = IF out = "rc_nonzero"
                                                  THEN "RuntimeError" ELSE out]
                      ELSE [ran EXCEPT !.outputs = Append(@, segment(cmd, out)),
                                       !.i = @ + 1]
    /\ UNCHANGED not_probe

\* return outputs
ProbeReturns ==
    /\ probe.pc = "loop"
    /\ probe.i > Len(probe.cmd_list)
    /\ probe' = [probe EXCEPT !.pc = "returned"]
    /\ UNCHANGED not_probe

\* one call with some request; the campaign is not running
InitProbe ==
    /\ InitCampaign
    /\ ~enable_strict_restart
    /\ failure_list = NoList
    /\ oracle = OracleIdle
    /\ restoration = RestorationIdle
    /\ executor = ExecutorIdle
    /\ probe \in {[ProbeIdle EXCEPT !.pc = "call", !.cmds = r, !.check = c] :
                      r \in Requests, c \in BOOLEAN}
    /\ llm = LlmIdle
    /\ quantity = QuantityIdle

NextProbe ==
    \/ SplitCommands
    \/ RunCommand
    \/ ProbeReturns

SpecProbe == InitProbe /\ [][NextProbe]_vars

\* =========================================================================
\* models/llm.py: one call of LLMClient.generate(prompts, tools) with tools,
\* and parse_streamed_response inside it
\* =========================================================================
not_llm == <<campaign_vars, oracle, executor, probe, quantity, restoration>>

\* return content, tools
GenerateReturns(l, c, t) == [l EXCEPT !.pc = "returned", !.content = c, !.tools = t]

\* a response without tool calls: retry_time -= 1, return "", [] when it is 0,
\* else the test of the while loop
AfterNoToolCalls(l) ==
    IF l.retry_time - 1 = 0 \/ l.retry_time - 1 < 0
    THEN GenerateReturns([l EXCEPT !.retry_time = @ - 1], "", <<>>)
    ELSE [l EXCEPT !.retry_time = @ - 1, !.pc = "loop"]

\* the top of the while loop: the payload is built around the caller's list;
\* for a model without native tools the content of the last message is
\* replaced by the tool-call prompt, in the first pass only
BuildPayload ==
    /\ llm.pc = "loop"
    /\ llm' = [llm EXCEPT
                  !.pc = "request",
                  !.prompts = IF ~NativeTools(llm.model) /\ llm.retry_time = max_retry_time
                              THEN [@ EXCEPT ![Len(@)] =
                                      [@ EXCEPT !.content = tool_call_prompt(@)]]
                              ELSE @]
    /\ UNCHANGED not_llm

\* the request: an exception (transport error, HTTP status, timeout) costs a
\* retry; otherwise the response is read according to the model
Request ==
    /\ llm.pc = "request"
    /\ \/ llm' = IF llm.retry_time - 1 >= 0
                  THEN [llm EXCEPT !.retry_time = @ - 1, !.pc = "loop"]
                  ELSE GenerateReturns([llm EXCEPT !.retry_time = @ - 1], "", <<>>)
       \/ /\ Streamed(llm.model)
          /\ llm' = [llm EXCEPT !.pc = "stream", !.stream = <<>>,
                                !.current_tool_calls = <<>>, !.deltas = 0,
                                !.full_message = NoMessage]
       \/ /\ ~Streamed(llm.model)
          /\ \E calls \in {<<>>, <<"print_playbook">>, <<"probe_system">>} :
               llm' = IF calls # <<>>
                      THEN GenerateReturns(llm, IF llm.model = "qwen" THEN ""
                                                ELSE "message", calls)
                      ELSE AfterNoToolCalls(llm)
    /\ UNCHANGED not_llm

\* the end of parse_streamed_response: the list ordered by index, and content
\* None when there are tool calls and no text
ParserReturns(l) ==
    [l EXCEPT !.pc = "parsed",
              !.full_message =
                  [parsed |-> TRUE,
                   content |-> IF l.current_tool_calls # <<>> /\ l.deltas = 0
                               THEN "None"
                               ELSE IF l.deltas = 0 THEN "" ELSE "text",
                   tool_calls |-> tool_calls_list(l.current_tool_calls)]]

\* one pass of `for line in stream_response.iter_lines()`
ParseLine ==
    /\ llm.pc = "stream"
    /\ Len(llm.stream) < MaxChunks
    /\ \E line \in Lines :
         LET l == [llm EXCEPT !.stream = Append(@, line)]
         IN  llm' = CASE line.kind = "done" -> ParserReturns(l)
                      [] line.kind = "content" -> [l EXCEPT !.deltas = @ + 1]
                      [] line.kind = "tool_call" ->
                            [l EXCEPT !.current_tool_calls = accumulate(@, line)]
                      [] OTHER -> l
    /\ UNCHANGED not_llm

\* the stream ends without a done marker
EndOfStream ==
    /\ llm.pc = "stream"
    /\ llm' = ParserReturns(llm)
    /\ UNCHANGED not_llm

\* the server sends a line after the done marker: the parser has left its
\* loop and does not read it
LineAfterDone ==
    /\ llm.pc = "parsed"
    /\ Len(llm.stream) < MaxChunks
    /\ \E k \in 1..Len(llm.stream) : llm.stream[k].kind = "done"
    /\ \E line \in Lines : llm' = [llm EXCEPT !.stream = Append(@, line)]
    /\ UNCHANGED not_llm

\* generate after the parser returned
AfterParse ==
    /\ llm.pc = "parsed"
    /\ llm' = IF llm.full_message.tool_calls # <<>>
              THEN GenerateReturns(llm, "", llm.full_message.tool_calls)
              ELSE AfterNoToolCalls(llm)
    /\ UNCHANGED not_llm

\* one call with the caller's transcript; the campaign is not running
InitLLM ==
    /\ InitCampaign
    /\ ~enable_strict_restart
    /\ failure_list = NoList
    /\ oracle = OracleIdle
    /\ restoration = RestorationIdle
    /\ executor = ExecutorIdle
    /\ probe = ProbeIdle
    /\ llm \in {[LlmIdle EXCEPT !.pc = "loop", !.model = m, !.prompts = t,
                                 !.retry_time = max_retry_time] :
                    m \in Models, t \in Transcripts}
    /\ quantity = QuantityIdle

NextLLM ==
    \/ BuildPayload
    \/ Request
    \/ ParseLine
    \/ EndOfStream
    \/ LineAfterDone
    \/ AfterParse

SpecLLM == InitLLM /\ [][NextLLM]_vars

\* =========================================================================
\* chaos/check_status.py: one call of parse_cpu_to_millicores or of
\* parse_memory_to_bytes
\* =========================================================================
not_quantity == <<campaign_vars, oracle, executor, probe, llm, restoration>>

ParseCpu ==
    /\ quantity.pc = "call"
    /\ quantity.function = "parse_cpu_to_millicores"
    /\ quantity' = [quantity EXCEPT !.pc = "returned",
                                    !.millicores = parse_cpu_to_millicores(quantity.input)]
    /\ UNCHANGED not_quantity

ParseMemory ==
    /\ quantity.pc = "call"
    /\ quantity.function = "parse_memory_to_bytes"
    /\ quantity' = [quantity EXCEPT !.pc = "returned",
                                    !.bytes = memory_bytes(quantity.input)]
    /\ UNCHANGED not_quantity

\* one call with some string; the campaign is not running
InitQuantity ==
    /\ InitCampaign
    /\ ~enable_strict_restart
    /\ failure_list = NoList
    /\ oracle = OracleIdle
    /\ restoration = RestorationIdle
    /\ executor = ExecutorIdle
    /\ probe = ProbeIdle
    /\ llm = LlmIdle
    /\ quantity \in
         {[QuantityIdle EXCEPT !.pc = "call", !.function = "parse_cpu_to_millicores",
                               !.input = q] : q \in CpuStrings}
         \cup {[QuantityIdle EXCEPT !.pc = "call", !.function = "parse_memory_to_bytes",
                                    !.input = q] : q \in MemoryStrings}

NextQuantity ==
    \/ ParseCpu
    \/ ParseMemory

SpecQuantity == InitQuantity /\ [][NextQuantity]_vars

\* =========================================================================
\* chaos/deployment.py: one call of restore_by_original_manifest
\* =========================================================================
not_restoration == <<campaign_vars, oracle, executor, probe, llm, quantity>>

RestoreReturns(r, v) == [r EXCEPT !.pc = "returned", !.result = IF v THEN "True" ELSE "False"]

\* get_original_resource_by_app; "if not result: return False"; then
\* list_namespaced_pod, whose exception returns False
ListPods ==
    /\ restoration.pc = "call"
    /\ IF ~restoration.found
       THEN restoration' = RestoreReturns(restoration, FALSE)
       ELSE \E listed \in BOOLEAN :
              IF ~listed
              THEN restoration' = RestoreReturns([restoration EXCEPT !.pods = <<>>], FALSE)
              ELSE restoration' = [restoration EXCEPT
                                      !.calls = Append(@, "list"),
                                      !.i = 1,
                                      !.pc = IF restoration.pods = <<>> THEN "apply"
                                                                       ELSE "pods"]
    /\ UNCHANGED not_restoration

\* one iteration of "for pod in pods": judge the pod and delete it if
\* abnormal; an exception of delete_namespaced_pod is printed and ignored
JudgePod ==
    /\ restoration.pc = "pods"
    /\ \E listed \in IF /\ ~_is_pod_abnormal(restoration.pods[restoration.i])
                        /\ restoration.target_resources.present
                     THEN BOOLEAN ELSE {TRUE} :
         LET r == restoration
             pod == r.pods[r.i]
             current_resources == _get_current_pod_resources(r.pods, r.i, listed)
             pod_abnormal ==
                 \/ _is_pod_abnormal(pod)
                 \/ /\ r.target_resources.present
                    /\ current_resources.present
                    /\ ~_resources_equal(r.target_resources, current_resources)
         IN  restoration' = [r EXCEPT
                 !.deletes = IF pod_abnormal THEN @ \cup {r.i} ELSE @,
                 !.unread = IF listed THEN @ ELSE @ \cup {r.i},
                 !.calls = IF pod_abnormal THEN Append(@, "delete") ELSE @,
                 !.i = @ + 1,
                 !.pc = IF r.i = Len(r.pods) THEN "apply" ELSE "pods"]
    /\ UNCHANGED not_restoration

\* kubectl apply -f - with the original manifest: exit code 0, or a non-zero
\* exit code, TimeoutExpired or another exception, which return False
ApplyManifest ==
    /\ restoration.pc = "apply"
    /\ \E out \in {"rc_zero", "rc_nonzero", "TimeoutExpired", "Exception"} :
         LET r == [restoration EXCEPT !.calls = Append(@, "apply")] IN
         IF out = "rc_zero"
         THEN restoration' = [r EXCEPT !.applied = TRUE, !.pc = "wait"]
         ELSE restoration' = RestoreReturns(r, FALSE)
    /\ UNCHANGED not_restoration

\* check_pod_ready_recovered(api, namespace, label): its verdict is the
\* result; an exception of its kubectl call other than TimeoutExpired
\* propagates
WaitForReadiness ==
    /\ restoration.pc = "wait"
    /\ \E out \in {"True", "False", "raise"} :
         LET r == [restoration EXCEPT !.calls = Append(@, "wait")] IN
         IF out = "raise"
         THEN restoration' = [r EXCEPT !.pc = "raised", !.raised = "Exception"]
         ELSE restoration' = RestoreReturns([r EXCEPT !.ready = (out = "True")],
                                            out = "True")
    /\ UNCHANGED not_restoration

\* one call for some app and some pods; the campaign is not running
InitRestore ==
    /\ InitCampaign
    /\ ~enable_strict_restart
    /\ failure_list = NoList
    /\ oracle = OracleIdle
    /\ executor = ExecutorIdle
    /\ probe = ProbeIdle
    /\ llm = LlmIdle
    /\ quantity = QuantityIdle
    /\ restoration \in
         {[RestorationIdle EXCEPT !.pc = "call", !.found = f, !.target_resources = t,
                                  !.pods = l]
            : f \in BOOLEAN, t \in {OriginalCpu, NoneQty}, l \in PodLists}

NextRestore ==
    \/ ListPods
    \/ JudgePod
    \/ ApplyManifest
    \/ WaitForReadiness

SpecRestore == InitRestore /\ [][NextRestore]_vars

\* =========================================================================
\* Properties
\* =========================================================================

CallEnded == {"post", "terminated"}

\* C1: in one call of remediate_failure the Action Executor is invoked at most
\* MAX_RETRY_TIME + 1 times; when the last allowed attempt has failed the loop
\* returns the transcript with the failed verdict, and from then on the call
\* makes no model call and no executor invocation.
C1_RetryBound ==
    /\ [](exec_calls <= MAX_RETRY_TIME + 1)
    /\ [][(pc = "retry_test" /\ ~status /\ try_time = MAX_RETRY_TIME + 1)
            => (pc' = "post" /\ conversations' = "list" /\ ~status'
                /\ llm_tick' = llm_tick /\ exec_calls' = exec_calls)]_vars

\* every verification failed and the call returned after the last allowed attempt
C1_Witness ==
    /\ pc = "post"
    /\ conversations = "list"
    /\ exec_calls = MAX_RETRY_TIME + 1
    /\ ret_try_time = MAX_RETRY_TIME + 1
    /\ ~status

\* C2: when the loop decides whether to retry or to finish, every attempt made
\* so far has been verified, also an attempt whose executor reported failure.
C2_VerifiedAfterEveryExecution ==
    pc = "retry_test" => verify_calls = exec_calls

\* C3: when the Action Executor throws, stop_injection and
\* restore_by_original_manifest are still invoked exactly once for the slot.
C3_RestoreWhenExecutorThrows ==
    abort = "RuntimeError" =>
        /\ stop_calls[current_experiment_no] = 1
        /\ restore_calls[current_experiment_no] = 1

\* C4: a slot whose remediation call returned ends with stop_injection and then
\* restore_by_original_manifest invoked exactly once each, after the final
\* verification and before the slot counter advances.
C4_StopAndRestoreOncePerReturn ==
    \A s \in Slots :
        (Has(events[s], "remediate_ret") /\ (current_experiment_no > s \/ pc = "terminated"))
        => /\ stop_calls[s] = 1
           /\ restore_calls[s] = 1
           /\ Before(events[s], "final_check", "stop")
           /\ Before(events[s], "stop", "restore")

\* C5: no error inside the campaign loop ends run_experiments before all slots
\* are processed.
C5_NoErrorEndsCampaign ==
    pc = "terminated" => current_experiment_no > TotalExperiments

\* C6: remediate_failure always returns the transcript, beginning with the
\* system prompt, and an attempt count between 1 and MAX_RETRY_TIME + 1.
C6_ReturnsTranscriptAndAttempts ==
    conversations # "none" =>
        /\ conversations = "list"
        /\ Len(prompts) >= 1
        /\ prompts[1].role = "system"
        /\ ret_try_time \in 1..(MAX_RETRY_TIME + 1)

\* C7 (as stated): every call of the remediation loop that starts drafting
\* reaches its end, whatever the model answers.
C7_AlwaysTerminates ==
    (pc = "draft") ~> (pc \in CallEnded)

\* C7 (amended): the call reaches its end provided the model does not answer
\* with probe requests forever; a drafting phase ends at the first response
\* that is no tool call, a print_playbook call, or an error.
C7_TerminatesUnlessProbingForever ==
    ([]<>(last_resp \notin ProbeResponses)) => ((pc = "draft") ~> (pc \in CallEnded))

\* a call that returned its transcript after a drafting phase with a probe round
C7_Witness ==
    /\ pc = "post"
    /\ conversations = "list"
    /\ Has(prompts, round_prompt)

\* C8: on an injection timeout with strict restart, after the redeploy the
\* same slot is retried from the top of the campaign loop, the slot counter
\* and the injection-failure count unchanged.
C8_StrictRestartRetriesSlot ==
    [][(pc = "wait" /\ elapsed > InjectionTimeout /\ enable_strict_restart
          /\ pc' # "terminated")
         => (/\ pc' = "loop"
             /\ current_experiment_no' = current_experiment_no
             /\ failure_injection_failures' = failure_injection_failures)]_vars

\* C9: a failed baseline check leads back to the top of the loop (unless the
\* redeploy itself exits the process) with the slot counter, the
\* injection-failure count, the success count and the per-kind counters
\* unchanged, nothing injected, nothing stopped or restored, no record persisted.
C9_UnhealthyBaselineFrame ==
    [][(pc = "baseline" /\ pc' # "inject")
         => (/\ pc' \in {"loop", "terminated"}
             /\ current_experiment_no' = current_experiment_no
             /\ failure_injection_failures' = failure_injection_failures
             /\ success_count' = success_count
             /\ failure_type_success_injection_dict' = failure_type_success_injection_dict
             /\ failure_type_success_remediation_dict'
                    = failure_type_success_remediation_dict
             /\ records' = records
             /\ stop_calls' = stop_calls
             /\ restore_calls' = restore_calls
             /\ events'[current_experiment_no] = <<"baseline">>)]_vars

\* the baseline check failed, the environment was redeployed, a new iteration starts
C9_Witness ==
    /\ pc = "loop"
    /\ unhealthy > 0
    /\ events[current_experiment_no] = <<"baseline">>

\* the order of the steps of the experiment in slot s
OrderWithin(s) ==
    LET e == events[s] IN
    /\ Has(e, "remediate_call") =>
           /\ Before(e, "apply_ok", "check_false")
           /\ Before(e, "check_false", "remediate_call")
    /\ Has(e, "final_check") => Before(e, "remediate_ret", "final_check")
    /\ Has(e, "restore") => Before(e, "final_check", "restore")

C11_RecordAfterRestore ==
    \A s \in Slots :
        Has(events[s], "save") =>
            /\ Before(events[s], "stop", "save")
            /\ Before(events[s], "restore", "save")

\* C12: every slot the campaign has consumed, whether by a complete experiment,
\* by an injection that failed to apply or by one that timed out, has exactly
\* one persisted record.
C12_OneRecordPerConsumedSlot ==
    \A s \in Slots :
        s < current_experiment_no => Len(records[s]) = 1

\* C13: the step that makes the final check and persists the record writes
\* final_status "success" exactly when that check is true, whatever the loop's
\* verdict was, and adds one to success_count and to the kind's
\* remediation-success counter exactly then; no other step writes a record or
\* changes these counters.
C13_FinalStatusIsFinalCheck ==
    [][LET n == current_experiment_no
           inc == IF success' THEN 1 ELSE 0
       IN  IF pc = "post" /\ pc' = "stop"
           THEN /\ records'[n] = Append(records[n],
                        [final_status |-> IF success' THEN "success" ELSE "failed",
                         retries |-> ret_try_time])
                /\ \A s \in Slots \ {n} : records'[s] = records[s]
                /\ success_count' = success_count + inc
                /\ failure_type_success_remediation_dict' =
                       [failure_type_success_remediation_dict
                           EXCEPT ![failure_type] = @ + inc]
           ELSE /\ records' = records
                /\ success_count' = success_count
                /\ failure_type_success_remediation_dict'
                       = failure_type_success_remediation_dict]_vars

\* the loop returned with a positive verdict, the final check was false and
\* the record says failed
C13_Witness ==
    /\ pc = "stop"
    /\ status
    /\ ~success
    /\ success_count = 0
    /\ records[current_experiment_no]
           = <<[final_status |-> "failed", retries |-> 1]>>

\* the string check returns for a predicate's boolean
ResultOf(v) == IF v THEN "True" ELSE "False"

\* the step is a return of predicate p from its own code
Returned(p) ==
    /\ Len(oracle'.returns) = Len(oracle.returns) + 1
    /\ oracle'.returns[Len(oracle'.returns)].predicate = p
ReturnedValue == oracle'.returns[Len(oracle'.returns)].value

\* C14: for a kind outside the seven supported ones check returns False and
\* invokes no predicate; for a supported kind it invokes exactly the predicate
\* of that kind (the ping predicate for network-loss and for network-delay)
\* and returns what that predicate returned.
C14_CheckDispatch ==
    LET supported == {"cpu-stress", "memory-stress", "pod-fail", "network-loss",
                      "network-delay", "disk-io", "pod-config-error"}
        mapped == CASE oracle.type = "cpu-stress" -> "check_cpu_stress_recovered"
                    [] oracle.type = "memory-stress" -> "check_memory_stress_recovered"
                    [] oracle.type = "pod-fail" -> "check_pod_ready_recovered"
                    [] oracle.type \in {"network-loss", "network-delay"}
                           -> "check_ping_latency_recovered"
                    [] oracle.type = "disk-io" -> "check_disk_io_performance"
                    [] oracle.type = "pod-config-error" -> "check_config_error_recovered"
        r == oracle.returns
    IN  oracle.pc # "call" =>
          IF oracle.type \notin supported
          THEN /\ oracle.pc = "returned"
               /\ oracle.result = "False"
               /\ oracle.invoked = <<>>
               /\ oracle.predicate = "none"
               /\ r = <<>>
          ELSE /\ oracle.invoked = <<mapped>>
               /\ oracle.pc = "returned" =>
                     IF mapped = "check_config_error_recovered"
                     THEN /\ r[1].predicate = "check_cpu_stress_recovered"
                          /\ IF r[1].value
                             THEN /\ Len(r) = 2
                                  /\ r[2].predicate = "check_memory_stress_recovered"
                                  /\ oracle.result = ResultOf(r[2].value)
                             ELSE Len(r) = 1 /\ oracle.result = "False"
                     ELSE /\ Len(r) = 1
                          /\ r[1].predicate = mapped
                          /\ oracle.result = ResultOf(r[1].value)

\* check for network-delay returned what the ping predicate found in a
\* passing round
C14_Witness ==
    /\ oracle.pc = "returned"
    /\ oracle.type = "network-delay"
    /\ oracle.result = "True"
    /\ oracle.sample \in Probes

RatioPredicates == {"check_cpu_stress_recovered", "check_memory_stress_recovered"}

\* C15: in the CPU and memory predicates a round that met a judged container
\* at or above the ratio threshold does not pass, whatever the other
\* containers of the round were; the predicate returns True only at the end
\* of a round whose flag is still True, and False otherwise.
C15_OnlyFullyPassingRound ==
    /\ []((oracle.predicate \in RatioPredicates /\ oracle.pc = "round_end"
              /\ oracle.round_bad)
            => ~oracle.all_ok)
    /\ [][(Returned("check_cpu_stress_recovered")
              \/ Returned("check_memory_stress_recovered"))
            => (/\ ReturnedValue <=> (oracle.pc = "round_end" /\ oracle.all_ok)
                /\ ReturnedValue => ~oracle.round_bad)]_vars

\* the CPU predicate returned False after a last round with one container
\* below the threshold and one at or above it
C15_Witness ==
    /\ oracle.pc = "returned"
    /\ oracle.predicate = "check_cpu_stress_recovered"
    /\ oracle.result = "False"
    /\ oracle.round_good
    /\ oracle.round_bad

\* C16: check_pod_running_and_ready is False for every pod with a deletion
\* timestamp, and no pass of a readiness loop that examined such a pod finds
\* all pods ready.
C16_TerminatingPodNeverReady ==
    /\ oracle.pod.deletion_timestamp # "None" => ~oracle.ready
    /\ (oracle.pc = "gate_end" /\ oracle.all_ready) => ~oracle.poll_terminating
    /\ oracle.gate_ok => ~oracle.poll_terminating

\* a Running pod with Ready=True and a deletion timestamp was examined
C16_Witness ==
    /\ oracle.pc = "gate_end"
    /\ oracle.pod = [deletion_timestamp |-> "set", phase |-> "Running",
                     conditions |-> ConditionList(<<Condition("Ready", "True")>>)]
    /\ ~oracle.ready
    /\ ~oracle.all_ready

\* C17: a pod is counted as ready exactly when it has no deletion timestamp,
\* its phase is Running and it reports a condition Ready with status True.
C17_ReadyExactlyWhen ==
    oracle.pod # NoPod =>
        (oracle.ready <=>
            /\ oracle.pod.deletion_timestamp = "None"
            /\ oracle.pod.phase = "Running"
            /\ ~oracle.pod.conditions.is_none
            /\ \E i \in 1..Len(oracle.pod.conditions.items) :
                  /\ oracle.pod.conditions.items[i].type = "Ready"
                  /\ oracle.pod.conditions.items[i].status = "True")

\* C18: in the CPU, memory, network and disk predicates the metric loop runs
\* only after a pass of the readiness loop found all pods ready, and the
\* predicate returns True only then.
C18_MetricLoopOnlyAfterReadiness ==
    oracle.predicate \in MetricPredicates =>
        /\ oracle.pc \in {"round", "sampling", "round_end"} => oracle.gate_ok
        /\ (oracle.pc = "returned" /\ oracle.result = "True") => oracle.gate_ok

\* C19: no predicate raises to check, for any of the seven kinds.
C19_NoPredicateRaises ==
    oracle.pc # "raised" /\ oracle.raised = ""

InPing == oracle.predicate = "check_ping_latency_recovered"

\* C20: in the network predicate a probe output without a parsable
\* packet-loss line counts as 100% loss and its round does not pass; a round
\* passes only if every probe has a parsed loss of at most max_loss_percent
\* and a parsed average latency of at most max_latency_ms; the predicate
\* never raises and returns True only at the end of a passing round, so it
\* returns False when every round has a failing pod.
C20_UnparsableProbeFailsRound ==
    /\ []((InPing /\ oracle.sample \in Probes /\ ~oracle.sample.exception
              /\ oracle.sample.loss.line # "ok")
            => (parse_packet_loss(oracle.sample.loss) = 100 /\ ~oracle.all_ok))
    /\ []((InPing /\ oracle.pc = "round_end" /\ oracle.all_ok) => ~oracle.round_bad)
    /\ [](InPing => oracle.raised = "")
    /\ [][Returned("check_ping_latency_recovered")
            => (/\ ReturnedValue <=> (oracle.pc = "round_end" /\ oracle.all_ok)
                /\ ReturnedValue => ~oracle.round_bad)]_vars

\* the network predicate returned False after a last round in which a pod's
\* probe exited with 0 and printed no parsable packet-loss line
C20_Witness ==
    /\ oracle.pc = "returned"
    /\ oracle.type = "network-loss"
    /\ oracle.result = "False"
    /\ oracle.sample \in Probes
    /\ ~oracle.sample.exception
    /\ oracle.sample.returncode = 0
    /\ oracle.sample.loss.line = "nonnumeric"

\* C21: in every round of the disk I/O predicate, for each pod on which the
\* test write was run, the removal of the test file is issued afterwards,
\* whatever the outcome of the write (too slow, no output, unparsable duration).
C21_CleanupAfterEveryWrite ==
    (/\ oracle.predicate = "check_disk_io_performance"
     /\ oracle.sample.what = "write"
     /\ oracle.sample.outcome # "exception")
        => cleanup_issued(oracle.sample)

\* C28: a call of check on a system that stays recovered, the first or the one
\* immediately after it, returns True and leaves the cluster as it was before
\* the first call: the same pods hold a test file as before.
C28_TwoCallsLeaveNoTrace ==
    (oracle.recovered /\ oracle.pc = "returned")
        => (oracle.result = "True" /\ oracle.test_files = oracle.files_before)


\* C22: execute_playbook_and_get_response never raises to its caller; every
\* failure is returned as (False, text).
C22_ExecutorNeverRaises == executor.pc # "raised"

\* C23: when the action exceeded its timeout and the function returns, it
\* returns (False, text with the partial output) and no process of the group
\* it spawned is still running.
C23_NoProcessLeftAfterTimeout ==
    (executor.pc = "returned" /\ executor.timed_out)
        => /\ ~executor.status
           /\ executor.text = "timed out, partial output"
           /\ executor.running = {}


\* the pieces put together again with the delimiter between them
RECURSIVE Join(_)
Join(list) ==
    IF Len(list) = 0 THEN <<>>
    ELSE IF Len(list) = 1 THEN list[1]
    ELSE list[1] \o <<";">> \o Join(Tail(list))

\* C24: with check disabled get_probe_response runs the commands of the
\* request one at a time in the given order (a string request split on the
\* delimiter), appends exactly one segment per command in that order, never
\* raises, and returns only after every command was run and recorded,
\* whatever the outcome of the commands before it.
C24_EveryCommandRunAndRecorded ==
    (~probe.check /\ probe.pc \in {"loop", "returned", "raised"}) =>
        /\ probe.pc # "raised"
        /\ IF probe.cmds.kind = "str"
           THEN /\ Join(probe.cmd_list) = probe.cmds.text
                /\ \A k \in 1..Len(probe.cmd_list) :
                      \A h \in 1..Len(probe.cmd_list[k]) : probe.cmd_list[k][h] # ";"
           ELSE probe.cmd_list = probe.cmds.items
        /\ Len(probe.executed) = probe.i - 1
        /\ probe.executed = SubSeq(probe.cmd_list, 1, probe.i - 1)
        /\ Len(probe.outputs) = Len(probe.executed)
        /\ \A k \in 1..Len(probe.outputs) : probe.outputs[k].command = probe.executed[k]
        /\ probe.pc = "returned" => probe.executed = probe.cmd_list
        /\ probe.raised = ""

\* a string request of two commands has returned, the first command timed
\* out and the second was run and recorded
C24_Witness ==
    /\ probe.pc = "returned" /\ ~probe.check /\ probe.cmds.kind = "str"
    /\ Len(probe.cmd_list) = 2
    /\ Len(probe.outputs) = 2
    /\ probe.outputs[1].response = "time out"
    /\ probe.outputs[2].response = "stdout"


\* C25: the transcript handed to the model transport is append-only: no step
\* shortens it or changes the role or content of a message it holds.
C25_TranscriptAppendOnly ==
    [][/\ Len(llm.prompts') >= Len(llm.prompts)
       /\ \A k \in 1..Len(llm.prompts) : llm.prompts'[k] = llm.prompts[k]]_vars

\* the lines the parser takes into account: those before the done marker
Effective(stream) ==
    IF \E k \in 1..Len(stream) : stream[k].kind = "done"
    THEN SubSeq(stream, 1, (CHOOSE k \in 1..Len(stream) :
                               /\ stream[k].kind = "done"
                               /\ \A h \in 1..(k - 1) : stream[h].kind # "done") - 1)
    ELSE stream

\* the tool-call chunks of index i, in arrival order
ChunksOf(stream, i) ==
    SelectSeq(Effective(stream), LAMBDA c : c.kind = "tool_call" /\ c.index = i)

RECURSIVE Concat(_)
Concat(chunks) ==
    IF chunks = <<>> THEN <<>> ELSE Head(chunks).arguments \o Concat(Tail(chunks))

\* the name of call i: the stream names a call in at least one of its chunks
NameOf(stream, i) ==
    IF \E k \in 1..Len(ChunksOf(stream, i)) : ChunksOf(stream, i)[k].name # ""
    THEN ToolName(i) ELSE ""

\* the calls a single response carrying them lists: by index, each with its
\* name and its whole arguments
SingleShot(stream) ==
    LET keys == sorted({i \in Indexes : ChunksOf(stream, i) # <<>>})
    IN  [k \in 1..Len(keys) |->
            [index |-> keys[k], name |-> NameOf(stream, keys[k]),
             arguments |-> Concat(ChunksOf(stream, keys[k]))]]

\* C26: parse_streamed_response returns the tool calls sorted by index, each
\* with its name and the concatenation of its argument fragments in arrival
\* order, as a single response carrying those calls would list them; blank
\* and malformed lines, chunks without choices and lines after the done
\* marker contribute nothing.
C26_StreamedEqualsSingleShot ==
    llm.full_message.parsed => llm.full_message.tool_calls = SingleShot(llm.stream)

\* the fragments of two calls arrived interleaved, the call of the higher
\* index first and in two fragments
C26_Witness ==
    /\ llm.full_message.parsed
    /\ Len(llm.full_message.tool_calls) = 2
    /\ llm.current_tool_calls[1].index = 1
    /\ llm.stream[2].index = 0
    /\ llm.full_message.tool_calls[2].arguments = <<"x", "y">>


\* C27: when the print_playbook call carried arguments that are no valid JSON
\* or lack the code field, the loop does not raise: the error message is the
\* last message of the transcript, the draft is empty, and the step that
\* follows invokes the executor once with it, counts the attempt and leads
\* to the test of the retry loop.
C27_MalformedDraftIsAttempted ==
    [][(pc = "execute" /\ last_resp = "playbook_badjson") =>
          /\ playbook_code = ""
          /\ prompts[Len(prompts)] = Msg("assistant", "Error Code")
          /\ exec_calls' = exec_calls + 1
          /\ try_time' = (IF in_retry THEN try_time ELSE 0) + 1
          /\ pc' = "retry_test"
          /\ abort' = abort]_vars


\* C30: every observation of the cluster that follows an executor invocation
\* (a probe of the next drafting phase, the final check) is made only after
\* the settle delay that follows that invocation has elapsed, whatever the
\* executor reported.
C30_SettleBeforeNextObservation ==
    [][(\/ pc = "post" /\ pc' = "stop"
        \/ pc = "draft" /\ last_resp' = "probe_ok" /\ pc' = "draft")
           => settled]_vars


\* C29: parse_cpu_to_millicores returns n for "nm" and 1000 times the value
\* for a plain core count; parse_memory_to_bytes multiplies the number by
\* 1024^k for Ki, Mi, Gi, Ti, Pi, Ei (k = 1..6), by 1000^k for K, M, G, T
\* (k = 1..4), and returns the integer itself without suffix.
C29_ExactQuantities ==
    /\ (quantity.pc = "returned" /\ quantity.function = "parse_cpu_to_millicores") =>
          LET q == quantity.input IN
          /\ (q.suffix = "m" /\ q.milli = 0) => quantity.millicores = Parsed(q.number)
          /\ q.suffix = "" => quantity.millicores = Parsed(1000 * q.number + q.milli)
    /\ (quantity.pc = "returned" /\ quantity.function = "parse_memory_to_bytes") =>
          LET q == quantity.input
              b == quantity.bytes
              binary == <<"Ki", "Mi", "Gi", "Ti", "Pi", "Ei">>
              decimal == <<"K", "M", "G", "T">>
          IN  /\ \A k \in 1..6 : q.suffix = binary[k] =>
                    b = [raises |-> FALSE, number |-> q.number, base |-> 1024, exp |-> k]
              /\ \A k \in 1..4 : q.suffix = decimal[k] =>
                    b = [raises |-> FALSE, number |-> q.number, base |-> 1000, exp |-> k]
              /\ q.suffix = "" =>
                    b = [raises |-> FALSE, number |-> q.number, base |-> 1, exp |-> 0]


\* C31: when the retry loop solicits the model again, the last message of the
\* transcript is the previous attempt's execution response (the captured
\* output), and the retry message appended after it carries the executor's
\* status and the executor's output of that attempt.
C31_RetryMessageCarriesStatusAndOutput ==
    [][(pc = "retry_test" /\ pc' = "draft") =>
          \E output \in {"stdout", "error_msg"} :
             /\ prompts[Len(prompts)] = ExecResponseMsg(output)
             /\ prompts' = Append(prompts,
                   Msg("user", "retry_prompt returned: "
                               \o (IF playbook_exec_status THEN "True" ELSE "False")
                               \o ", output: " \o output))]_vars


\* C32: a probe request whose arguments cannot be parsed or hold no cmds runs
\* no probe command, appends nothing to the transcript, executes no action,
\* and leaves control in the drafting loop, where the model is solicited
\* again.
C32_MalformedProbeIsSkipped ==
    [][(pc = "draft" /\ last_resp' = "probe_bad") =>
          /\ prompts' = prompts
          /\ probe_rounds' = probe_rounds
          /\ exec_calls' = exec_calls
          /\ playbook_code' = playbook_code
          /\ conversations' = conversations
          /\ pc' = "draft"
          /\ llm_tick' # llm_tick]_vars

\* a malformed probe request was just skipped in a retry drafting phase,
\* after a well-formed probe of the same phase
C32_Witness ==
    /\ pc = "draft"
    /\ last_resp = "probe_bad"
    /\ in_retry
    /\ probe_rounds = 1
    /\ exec_calls = 1


InMemory == oracle.predicate = "check_memory_stress_recovered"

\* the container of the sample has no usage: kubectl top failed, printed no
\* line for it, or printed a value that does not parse
UsageMissing(s) == ~get_container_memory_usage_bytes(s.mem_str).present

\* C33 as stated: in the memory predicate every container with a declared
\* memory limit whose usage sample is missing fails the round, and a
\* container with no declared memory limit never fails it.
C33_MissingUsageFailsRound_AnyContainer ==
    /\ []((InMemory /\ oracle.sample \in MemoryContainers
              /\ oracle.sample.mem_limit.present /\ UsageMissing(oracle.sample))
            => ~oracle.all_ok)
    /\ [][(InMemory /\ oracle.pc = "sampling" /\ oracle'.sample \in MemoryContainers
              /\ ~oracle'.sample.mem_limit.present)
            => oracle'.all_ok = oracle.all_ok]_vars

\* C33: in the memory predicate a container that is no sidecar and has a
\* declared non-zero memory limit fails the round when its usage sample is
\* missing: the round does not pass and the predicate does not return True
\* from it; a container with no declared memory limit is skipped and never
\* changes the verdict of the round.
C33_MissingUsageFailsRound ==
    /\ []((InMemory /\ oracle.sample \in MemoryContainers
              /\ ~IsSidecar(oracle.sample.container)
              /\ oracle.sample.mem_limit.present
              /\ parse_memory_to_bytes(oracle.sample.mem_limit).value > 0
              /\ UsageMissing(oracle.sample))
            => ~oracle.all_ok)
    /\ [][(InMemory /\ oracle.pc = "sampling" /\ oracle'.sample \in MemoryContainers
              /\ ~oracle'.sample.mem_limit.present)
            => oracle'.all_ok = oracle.all_ok]_vars

\* the memory predicate returned False after a last round that judged an
\* application container with a limit and no usage sample
C33_Witness ==
    /\ oracle.pc = "returned"
    /\ oracle.type = "memory-stress"
    /\ oracle.result = "False"
    /\ oracle.sample \in MemoryContainers
    /\ oracle.sample.container = "app"
    /\ oracle.sample.mem_limit = Qty(1, "Mi")
    /\ oracle.sample.mem_str = NoneQty


InCpu == oracle.predicate = "check_cpu_stress_recovered"

\* a row of kubectl top the claim counts as skipped: a sidecar container, a
\* pod that is not in the pod list of the readiness gate, or a container
\* without a declared CPU limit
SkippedRow(s) ==
    /\ s \in CpuLines
    /\ (IsSidecar(s.container) \/ ~s.pod_listed \/ ~s.cpu_limit.present)

\* C34: in the CPU predicate a row of a container without a declared CPU
\* limit, of a sidecar container or of a pod that is not in the pod list of
\* the readiness gate is skipped: reading it neither fails nor ends the
\* round; and a round that ends with no row judged counts as passing, so the
\* predicate returns True from it.
C34_SkippedRowsNeverFailRound ==
    /\ [][(InCpu /\ oracle.pc = "sampling" /\ SkippedRow(oracle'.sample))
            => (/\ oracle'.all_ok = oracle.all_ok
                /\ oracle'.rounds = oracle.rounds
                /\ oracle'.pc \in {"sampling", "round_end"})]_vars
    /\ []((InCpu /\ oracle.pc = "round_end" /\ ~oracle.round_bad /\ ~oracle.round_good)
            => oracle.all_ok)
    /\ [][(InCpu /\ oracle.pc = "round_end" /\ oracle.all_ok)
            => (Returned("check_cpu_stress_recovered") /\ ReturnedValue)]_vars


\* the value of a cpu quantity in millicores
Millicores(q) == IF q.suffix = "m" THEN q.number ELSE 1000 * q.number + q.milli

\* the live resources of the i-th pod of the call differ from the recorded ones
OwnResourcesDiffer(r, i) ==
    /\ r.target_resources.present
    /\ r.pods[i].cpu.present
    /\ Millicores(r.pods[i].cpu) # Millicores(r.target_resources)

CallRank(c) == CASE c = "list" -> 0 [] c = "delete" -> 1 [] c = "apply" -> 2 [] c = "wait" -> 3

\* C35: once the loop over the pods is over, the pods restore asked to delete
\* are exactly those that are abnormal or whose own live resources, where
\* they could be read, differ from the recorded original; deletions come before the apply and the apply
\* before the wait for readiness; the result is True only if the apply
\* succeeded and the pods became ready; and without an original definition
\* nothing is deleted or applied.
C35_DeletesExactlyDivergentPods ==
    LET r == restoration IN
    /\ (r.pc \in {"apply", "wait", "returned", "raised"} /\ r.calls # <<>>) =>
          \A i \in 1..Len(r.pods) :
             i \in r.deletes <=> \/ _is_pod_abnormal(r.pods[i])
                                  \/ (OwnResourcesDiffer(r, i) /\ i \notin r.unread)
    /\ \A j, k \in 1..Len(r.calls) :
          j < k => /\ CallRank(r.calls[j]) <= CallRank(r.calls[k])
                   /\ r.calls[j] = r.calls[k] => r.calls[j] = "delete"
    /\ r.result = "True" => (r.applied /\ r.ready /\ r.calls[Len(r.calls)] = "wait")
    /\ ~r.found => (r.deletes = {} /\ r.calls = <<>>)


\* C36: every segment of the transcript get_probe_response builds with
\* check=False consists of two lines, "command:" followed by the command that
\* was run and "response:" followed by its result, whatever the outcome of
\* the command.
C36_EverySegmentIsCommandResponse ==
    ~probe.check =>
       \A k \in 1..Len(probe.outputs) :
          LET lines == probe.outputs[k].lines IN
          /\ Len(lines) = 2
          /\ lines[1] = [label |-> "command:", text |-> probe.executed[k]]
          /\ lines[2].label = "response:"


\* C37: run_experiments reaches its summary only with exactly
\* TotalExperiments slots consumed, and the injection-confirmation wait loop
\* is finite: a pass of the loop made after the injection timeout has expired
\* leaves the loop, with strict restart disabled and with it enabled.
C37_WaitLoopEndsAfterTimeout ==
    /\ [](pc = "done" => current_experiment_no = TotalExperiments + 1)
    /\ [][(pc = "wait" /\ elapsed > InjectionTimeout) => pc' # "wait"]_vars


\* the slot was abandoned because the injection was not confirmed in time
TimedOut(n) == Has(events[n], "timeout")

\* C38: when the wait loop is left at the timeout without strict restart, the
\* step stops the injection once, counts one injection failure, advances the
\* slot counter by one and touches neither the records nor the success
\* counters; and a slot abandoned this way has, from then on, exactly one
\* stop_injection call, no remediation call, no restore call and no record.
C38_TimedOutSlotIsAbandoned ==
    /\ [][(pc = "wait" /\ elapsed > InjectionTimeout /\ ~enable_strict_restart) =>
            /\ stop_calls' = [stop_calls EXCEPT ![current_experiment_no] = 1]
            /\ failure_injection_failures' = failure_injection_failures + 1
            /\ current_experiment_no' = current_experiment_no + 1
            /\ records' = records
            /\ restore_calls' = restore_calls
            /\ success_count' = success_count
            /\ failure_type_success_injection_dict' = failure_type_success_injection_dict
            /\ pc' = "loop"]_vars
    /\ [](\A n \in Slots : TimedOut(n) =>
            /\ n < current_experiment_no
            /\ stop_calls[n] = 1
            /\ restore_calls[n] = 0
            /\ records[n] = <<>>
            /\ ~Has(events[n], "remediate_call")
            /\ ~Has(events[n], "restore")
            /\ Has(events[n], "apply_ok"))

\* the first slot was abandoned at the timeout and the campaign went on to
\* remediate in the second slot
C38_Witness ==
    /\ TimedOut(1)
    /\ current_experiment_no = 2
    /\ failure_injection_failures = 1
    /\ pc = "post"


\* the playbook-execution-response messages of a transcript
ExecutionResponses(p) ==
    {k \in 1..Len(p) : \E output \in {"stdout", "error_msg"} : p[k] = ExecResponseMsg(output)}

\* C39: when remediate_failure has returned a transcript, the attempt count
\* returned with it equals the number of executor invocations of the call and
\* the number of playbook-execution-response messages in the transcript; a
\* retry whose draft raises returns the transcript with the count as it was,
\* without an execution.
C39_AttemptsEqualExecutions ==
    /\ []((pc = "post" /\ conversations = "list") =>
            /\ ret_try_time = exec_calls
            /\ ret_try_time = Cardinality(ExecutionResponses(prompts)))
    /\ [][(pc = "draft" /\ in_retry /\ last_resp' = "raise") =>
            /\ conversations' = "list"
            /\ ret_try_time' = try_time
            /\ exec_calls' = exec_calls
            /\ prompts' = prompts]_vars

\* a retry draft raised after one executed attempt: the transcript is returned
\* with one attempt
C39_Witness ==
    /\ pc = "post"
    /\ conversations = "list"
    /\ last_resp = "raise"
    /\ ret_try_time = 1
    /\ exec_calls = 1


\* the injections confirmed so far, over all kinds
ConfirmedInjections ==
    LET d == failure_type_success_injection_dict
    IN  d["cpu-stress"] + d["pod-fail"]

\* C40: the slot counter never decreases and a step advances it by at most
\* one; at the top of the campaign loop success_count plus the
\* injection-failure count is at most the number of consumed slots, and
\* confirmed injections plus injection failures equals it; for each kind the
\* remediation successes are at most the confirmed injections; at the end of
\* the campaign confirmed injections plus injection failures equals
\* TotalExperiments and the summary does not divide by zero; with a failure
\* list, the kind of slot i is the i-th entry of the list.
C40_CountersAreConsistent ==
    /\ [][current_experiment_no' \in {current_experiment_no, current_experiment_no + 1}]_vars
    /\ [](pc = "loop" =>
            /\ success_count + failure_injection_failures <= current_experiment_no - 1
            /\ ConfirmedInjections + failure_injection_failures = current_experiment_no - 1)
    /\ [](\A k \in get_random_failure :
            failure_type_success_remediation_dict[k] <= failure_type_success_injection_dict[k])
    /\ [](pc = "done" =>
            /\ ConfirmedInjections + failure_injection_failures = TotalExperiments
            /\ success_count <= TotalExperiments - failure_injection_failures)
    /\ [](abort # "ZeroDivisionError")
    /\ []((failure_list # NoList /\ failure_type # "none") =>
            failure_type = failure_list[current_experiment_no])

\* a campaign driven by a failure list ended with one confirmed injection that
\* was remediated and one injection failure
C40_Witness ==
    /\ pc = "done"
    /\ failure_list # NoList
    /\ success_count = 1
    /\ failure_injection_failures = 1
    /\ ConfirmedInjections = 1

====
